---- MODULE Spec2Model ----
(***************************************************************************)
(* useFormSchema (packages/use-form-schema-hook): the form reducer, the    *)
(* validation pass, the debounced change validation and handleSubmit.      *)
(*                                                                         *)
(* One step of the model is one synchronous run of JavaScript: a handler   *)
(* call up to its return, or the continuation of an async function from    *)
(* the settling of the promise it awaits up to its next await.  Closures   *)
(* (validate, handleChange, handleSubmit) read the values of the render    *)
(* they were created in ("rendered"), not the store ("st").                *)
(***************************************************************************)
EXTENDS Integers, Sequences, FiniteSets, TLC

\* ---------------------------------------------------------------- bounds
MaxOps == 3        \* calls the host makes on the returned handlers
MaxPasses == 2     \* validation passes in flight at once
MaxSubmits == 2    \* handleSubmit invocations
MaxCount == 2      \* submitAttemptCount in the states the reducer is applied to
MaxEntries == 2    \* entries of a failure the schema rejects with

\* ------------------------------------------------------- values and marks
Fields == {"a", "b"}
Val == {"", "x"}
Snapshots == [Fields -> Val]

Undefined == "<undefined>"
Null == "<null>"
Rejects == "<rejects>"
GenericAsyncMessage == "Validation error occurred"

EmptyMap == [f \in {} |-> ""]

Zero == "<0>"
Falsy(x) == x \in {"", Zero, Undefined, Null}

\* ------------------------------------------------------ schema (external)
\* A schema object, by the properties detectSchemaType probes.
\* parseAsync is not probed; validate calls it on a schema detected as Zod.
ZodSchema == [isObject |-> TRUE, safeParse |-> TRUE, def |-> TRUE,
              isYupSchema |-> FALSE, validate |-> FALSE, parseAsync |-> TRUE]
YupSchema == [isObject |-> TRUE, safeParse |-> FALSE, def |-> FALSE,
              isYupSchema |-> TRUE, validate |-> TRUE, parseAsync |-> FALSE]
PlainObject == [isObject |-> TRUE, safeParse |-> FALSE, def |-> FALSE,
                isYupSchema |-> FALSE, validate |-> FALSE, parseAsync |-> FALSE]
SchemaObjects == {ZodSchema, YupSchema, PlainObject}

detectSchemaType(schema) ==
    IF ~schema.isObject THEN "unknown"
    ELSE IF schema.safeParse /\ schema.def THEN "zod"
    ELSE IF schema.isYupSchema /\ schema.validate THEN "yup"
    ELSE "unknown"

\* The rules of the schema the host passes: field a is required and has a
\* minimum length (two issues on a when it is empty); b is required, reported
\* on field b when a fails too and as a form-level issue (no path) otherwise.
\* An issue is <<key, message>>, key "" standing for no path.
Issues(values) ==
    (IF values["a"] = "" THEN << <<"a", "required">> >> ELSE << >>)
    \o (IF values["b"] = ""
        THEN IF values["a"] = "" THEN << <<"b", "required">> >>
                                 ELSE << <<"", "form">> >>
        ELSE << >>)
    \o (IF values["a"] = "" THEN << <<"a", "short">> >> ELSE << >>)

\* What the schema's validation rejects with, per library.
ZodError(issues) ==
    [errors |-> [i \in 1..Len(issues) |->
        [path |-> IF issues[i][1] = "" THEN << >> ELSE << issues[i][1] >>,
         message |-> issues[i][2]]]]
YupAggregate(issues) ==
    [inner |-> [i \in 1..Len(issues) |->
        [path |-> issues[i][1], message |-> issues[i][2]]],
     message |-> "errors occurred"]
YupSingle(issue) == [path |-> issue[1], message |-> issue[2]]
UnsupportedError == [message |-> "Unsupported schema type. Please use Zod or Yup schema."]
\* The TypeError of calling a method the schema object does not have.
NotAFunction == [message |-> "schema.parseAsync is not a function"]

\* The outcomes of awaiting the schema's validation of a snapshot: "ok", or
\* the error it rejects with.
SchemaOutcomes(kind, values) ==
    LET issues == Issues(values) IN
    IF issues = << >> THEN {[ok |-> TRUE]}
    ELSE IF kind = "zod" THEN {[ok |-> FALSE, error |-> ZodError(issues)]}
    ELSE {[ok |-> FALSE, error |-> YupAggregate(issues)]}
         \cup (IF Len(issues) = 1
               THEN {[ok |-> FALSE, error |-> YupSingle(issues[1])]}
               ELSE {})

\* The reducer with one of its cases changed:
\*   "reset-count"  RESET keeps submitAttemptCount
\*   "values-clean" SET_VALUES does not set isDirty
\*   "errors-merge" SET_ERRORS merges the payload into the previous map
\*   "submitting-plain" SET_SUBMITTING leaves isValid as it is
\*   "error-truthy" SET_ERROR leaves isValid as it is for a falsy message
\*   "touched-dirty" SET_TOUCHED also sets isDirty
formReducerWith(state, action, change) ==
    CASE action.type = "SET_VALUE" ->
            [state EXCEPT !.values = [state.values EXCEPT ![action.field] = action.payload],
                          !.isDirty = TRUE]
      [] action.type = "SET_VALUES" ->
            [state EXCEPT !.values = [f \in Fields |->
                                         IF f \in DOMAIN action.payload
                                         THEN action.payload[f] ELSE state.values[f]],
                          !.isDirty = IF change = "values-clean" THEN state.isDirty ELSE TRUE]
      [] action.type = "SET_ERROR" ->
            [state EXCEPT !.errors = (action.field :> action.payload) @@ state.errors,
                          !.isValid = IF change = "error-truthy" /\ Falsy(action.payload)
                                      THEN state.isValid ELSE FALSE]
      [] action.type = "SET_ERRORS" ->
            [state EXCEPT !.errors = IF change = "errors-merge"
                                     THEN action.payload @@ state.errors
                                     ELSE action.payload,
                          !.isValid = (DOMAIN action.payload = {})]
      [] action.type = "SET_TOUCHED" ->
            [state EXCEPT !.touched =
                (action.field :> (IF "payload" \in DOMAIN action
                                  THEN action.payload ELSE TRUE)) @@ state.touched,
                          !.isDirty = IF change = "touched-dirty" THEN TRUE ELSE state.isDirty]
      [] action.type = "SET_SUBMITTING" ->
            [state EXCEPT !.isSubmitting = action.payload,
                          !.isValid = IF change = "submitting-plain"
                                      THEN state.isValid ELSE action.payload]
      [] action.type = "SET_VALIDATING" ->
            [state EXCEPT !.isValidating = action.payload]
      [] action.type = "SUBMIT_ATTEMPT" ->
            [state EXCEPT !.submitAttemptCount = state.submitAttemptCount + 1]
      [] action.type = "RESET" ->
            [values |-> IF "payload" \in DOMAIN action THEN action.payload ELSE state.values,
             errors |-> EmptyMap,
             touched |-> EmptyMap,
             isSubmitting |-> FALSE,
             isValidating |-> FALSE,
             isDirty |-> FALSE,
             isValid |-> TRUE,
             submitAttemptCount |-> IF change = "reset-count"
                                    THEN state.submitAttemptCount ELSE 0]
      [] OTHER -> state

\* (mutant) RESET keeps submitAttemptCount
formReducerResetKeepsCount(state, action) == formReducerWith(state, action, "reset-count")
\* (mutant) SET_VALUES does not mark the form dirty
formReducerValuesClean(state, action) == formReducerWith(state, action, "values-clean")
\* (mutant) SET_ERRORS merges instead of replacing
formReducerErrorsMerge(state, action) == formReducerWith(state, action, "errors-merge")
\* (mutant) SET_SUBMITTING sets isSubmitting only
formReducerSubmittingPlain(state, action) == formReducerWith(state, action, "submitting-plain")
\* (mutant) SET_ERROR with a falsy message leaves isValid as it is
formReducerErrorTruthy(state, action) == formReducerWith(state, action, "error-truthy")
\* (mutant) SET_TOUCHED also marks the form dirty
formReducerTouchedDirty(state, action) == formReducerWith(state, action, "touched-dirty")

\* ---------------------------------------------------------------- reducer
formReducer(state, action) ==
    CASE action.type = "SET_VALUE" ->
            [state EXCEPT !.values = [state.values EXCEPT ![action.field] = action.payload],
                          !.isDirty = TRUE]
      [] action.type = "SET_VALUES" ->
            [state EXCEPT !.values = [f \in Fields |->
                                         IF f \in DOMAIN action.payload
                                         THEN action.payload[f] ELSE state.values[f]],
                          !.isDirty = TRUE]
      [] action.type = "SET_ERROR" ->
            [state EXCEPT !.errors = (action.field :> action.payload) @@ state.errors,
                          !.isValid = FALSE]
      [] action.type = "SET_ERRORS" ->
            [state EXCEPT !.errors = action.payload,
                          !.isValid = (DOMAIN action.payload = {})]
      [] action.type = "SET_TOUCHED" ->
            [state EXCEPT !.touched =
                (action.field :> (IF "payload" \in DOMAIN action
                                  THEN action.payload ELSE TRUE)) @@ state.touched]
      [] action.type = "SET_SUBMITTING" ->
            [state EXCEPT !.isSubmitting = action.payload,
                          !.isValid = action.payload]
      [] action.type = "SET_VALIDATING" ->
            [state EXCEPT !.isValidating = action.payload]
      [] action.type = "SUBMIT_ATTEMPT" ->
            [state EXCEPT !.submitAttemptCount = state.submitAttemptCount + 1]
      [] action.type = "RESET" ->
            [values |-> IF "payload" \in DOMAIN action THEN action.payload ELSE state.values,
             errors |-> EmptyMap,
             touched |-> EmptyMap,
             isSubmitting |-> FALSE,
             isValidating |-> FALSE,
             isDirty |-> FALSE,
             isValid |-> TRUE,
             submitAttemptCount |-> 0]
      [] OTHER -> state

InitialState(initialValues) ==
    [values |-> initialValues,
     errors |-> EmptyMap,
     touched |-> EmptyMap,
     isSubmitting |-> FALSE,
     isValidating |-> FALSE,
     isDirty |-> FALSE,
     isValid |-> FALSE,
     submitAttemptCount |-> 0]

RECURSIVE ZodEntriesUnchecked(_, _, _)
\* (mutant) every entry is written, without the test of its key
ZodEntriesUnchecked(entries, i, acc) ==
    IF i > Len(entries) THEN acc
    ELSE LET err == entries[i]
             path == IF Len(err.path) = 0 THEN Undefined ELSE err.path[1]
         IN ZodEntriesUnchecked(entries, i + 1, (path :> err.message) @@ acc)

RECURSIVE ZodEntriesFirstWins(_, _, _)
\* (mutant) the first entry of a field is kept instead of the last
ZodEntriesFirstWins(entries, i, acc) ==
    IF i > Len(entries) THEN acc
    ELSE LET err == entries[i]
             path == IF Len(err.path) = 0 THEN Undefined ELSE err.path[1]
         IN ZodEntriesFirstWins(entries, i + 1,
                                IF Falsy(path) THEN acc ELSE acc @@ (path :> err.message))

RECURSIVE ZodEntriesLastSegment(_, _, _)
\* (mutant) the key is the last segment of the path, not the first
ZodEntriesLastSegment(entries, i, acc) ==
    IF i > Len(entries) THEN acc
    ELSE LET err == entries[i]
             path == IF Len(err.path) = 0 THEN Undefined ELSE err.path[Len(err.path)]
         IN ZodEntriesLastSegment(entries, i + 1,
                       IF Falsy(path) THEN acc ELSE (path :> err.message) @@ acc)

\* ------------------------------------------- validate: the catch block
RECURSIVE ZodEntries(_, _, _)
\* error.errors.forEach: errors[err.path[0]] = err.message when path[0] is truthy
ZodEntries(entries, i, acc) ==
    IF i > Len(entries) THEN acc
    ELSE LET err == entries[i]
             path == IF Len(err.path) = 0 THEN Undefined ELSE err.path[1]
         IN ZodEntries(entries, i + 1,
                       IF Falsy(path) THEN acc ELSE (path :> err.message) @@ acc)

RECURSIVE YupEntries(_, _, _)
\* error.inner.forEach: errors[err.path] = err.message when err.path is truthy
YupEntries(entries, i, acc) ==
    IF i > Len(entries) THEN acc
    ELSE LET err == entries[i]
         IN YupEntries(entries, i + 1,
                       IF Falsy(err.path) THEN acc ELSE (err.path :> err.message) @@ acc)

\* (mutant) only the aggregate shape of a Yup failure is handled
CatchValidateAggregateOnly(kind, error) ==
    IF kind = "zod"
    THEN IF "errors" \in DOMAIN error
         THEN [write |-> TRUE, errors |-> ZodEntries(error.errors, 1, EmptyMap), throws |-> FALSE]
         ELSE [write |-> FALSE, errors |-> EmptyMap, throws |-> TRUE]
    ELSE IF "inner" \in DOMAIN error
    THEN [write |-> TRUE, errors |-> YupEntries(error.inner, 1, EmptyMap), throws |-> FALSE]
    ELSE [write |-> FALSE, errors |-> EmptyMap, throws |-> FALSE]

\* The catch block of validate: what it dispatches for the error caught, and
\* whether it throws itself (error.errors is undefined for a Zod schema).
CatchValidate(kind, error) ==
    IF kind = "zod"
    THEN IF "errors" \in DOMAIN error
         THEN [write |-> TRUE, errors |-> ZodEntries(error.errors, 1, EmptyMap), throws |-> FALSE]
         ELSE [write |-> FALSE, errors |-> EmptyMap, throws |-> TRUE]
    ELSE IF "inner" \in DOMAIN error
    THEN [write |-> TRUE, errors |-> YupEntries(error.inner, 1, EmptyMap), throws |-> FALSE]
    ELSE IF "path" \in DOMAIN error /\ "message" \in DOMAIN error
    THEN [write |-> TRUE,
          errors |-> IF Falsy(error.path) THEN EmptyMap ELSE (error.path :> error.message),
          throws |-> FALSE]
    ELSE [write |-> FALSE, errors |-> EmptyMap, throws |-> FALSE]

\* ------------------------------------------------------------------ state
VARIABLES
    opts,             \* the options the hook was called with
    schemaType,       \* schemaType.current
    asyncValidators,  \* asyncValidators.current: the fields of the registered validators, in order
    st,               \* the reducer's state
    rendered,         \* state.values of the last render: what the handlers' closures read
    timers,           \* the pending timeouts of useDebounce
    passes,           \* the validation passes in flight (validate calls awaiting something)
    subs,             \* the handleSubmit invocations, in call order
    ops,              \* calls made by the host so far
    last              \* what the last step did and which validate() promise it settled

vars == <<opts, schemaType, asyncValidators, st, rendered, timers, passes, subs, ops, last>>

\* The initialValues the host passes: every field filled in.
InitialValues == [f \in Fields |-> "x"]

Options ==
    [schema : SchemaObjects,
     initialValues : {InitialValues},
     validateOnChange : BOOLEAN,
     validateOnBlur : BOOLEAN,
     resetOnSubmit : BOOLEAN]

\* Who awaits a validate() call: the handleSubmit invocation subs[owner], or
\* nobody the model follows (a timeout, handleBlur, the host) when owner = 0.
NoOwner == 0
\* last: the step taken (op); the validate() promise it settled, if any (ret:
\* "true", "false", "rejected"; "none" when it settled none), with the snapshot
\* that call validated (snap), who awaits it (owner) and what its async
\* validators settled with (outs) and whether it ran with no other pass in
\* flight (alone).
Event(op, ret, snap, owner, outs) ==
    [op |-> op, ret |-> ret, snap |-> snap, owner |-> owner, outs |-> outs,
     alone |-> TRUE]
Quiet(op) == Event(op, "none", opts.initialValues, NoOwner, << >>)

Init ==
    /\ opts \in Options
    /\ schemaType = detectSchemaType(opts.schema)
    /\ asyncValidators = << >>
    /\ st = InitialState(opts.initialValues)
    /\ rendered = opts.initialValues
    /\ timers = << >>
    /\ passes = << >>
    /\ subs = << >>
    /\ ops = 0
    /\ last = Quiet("init")

RemoveAt(seq, k) == SubSeq(seq, 1, k - 1) \o SubSeq(seq, k + 1, Len(seq))

\* ------------------------------------------------- validate, step by step
\* A step of validate gives the state it leaves, where the pass is then
\* ("schema": awaiting the schema, "async": awaiting validator idx, "done":
\* returned) and, when done, what the promise settles with.
PassStep(state, pc, ret, idx, asyncErrors) ==
    [st |-> state, pc |-> pc, ret |-> ret, idx |-> idx, asyncErrors |-> asyncErrors]

\* (mutant) the async validators are run after the catch block as well
ValidateCatchThenAsync(state, error) ==
    LET c == CatchValidate(schemaType, error)
        s1 == IF c.write
              THEN formReducer(state, [type |-> "SET_ERRORS", payload |-> c.errors])
              ELSE state
    IN IF Len(asyncValidators) = 0 \/ c.throws
       THEN PassStep(formReducer(s1, [type |-> "SET_VALIDATING", payload |-> FALSE]),
                     "done", IF c.throws THEN "rejected" ELSE "false", 0, EmptyMap)
       ELSE PassStep(s1, "async", "none", 1, EmptyMap)

\* (mutant) the catch block merges the schema's errors into the errors map
ValidateCatchMerges(state, error) ==
    LET c == CatchValidate(schemaType, error)
        s1 == IF c.write
              THEN formReducer(state, [type |-> "SET_ERRORS",
                                       payload |-> c.errors @@ state.errors])
              ELSE state
        s2 == formReducer(s1, [type |-> "SET_VALIDATING", payload |-> FALSE])
    IN PassStep(s2, "done", IF c.throws THEN "rejected" ELSE "false", 0, EmptyMap)

\* (mutant) SET_VALIDATING false dispatched at the end of the catch block
\* instead of in a finally block: skipped when the catch block itself throws
ValidateCatchNoFinally(state, error) ==
    LET c == CatchValidate(schemaType, error)
        s1 == IF c.write
              THEN formReducer(state, [type |-> "SET_ERRORS", payload |-> c.errors])
              ELSE state
        s2 == IF c.throws THEN s1
              ELSE formReducer(s1, [type |-> "SET_VALIDATING", payload |-> FALSE])
    IN PassStep(s2, "done", IF c.throws THEN "rejected" ELSE "false", 0, EmptyMap)

\* catch (error) { ... return false } finally { SET_VALIDATING false }
ValidateCatch(state, error) ==
    LET c == CatchValidate(schemaType, error)
        s1 == IF c.write
              THEN formReducer(state, [type |-> "SET_ERRORS", payload |-> c.errors])
              ELSE state
        s2 == formReducer(s1, [type |-> "SET_VALIDATING", payload |-> FALSE])
    IN PassStep(s2, "done", IF c.throws THEN "rejected" ELSE "false", 0, EmptyMap)

\* From the call to the first await: SET_VALIDATING true, then the schema's
\* validation is called, or the unsupported-schema error is thrown and caught
\* (as is the TypeError of the call when the schema has no parseAsync).
ValidateBegin(state) ==
    LET s1 == formReducer(state, [type |-> "SET_VALIDATING", payload |-> TRUE])
    IN IF schemaType = "zod" /\ ~opts.schema.parseAsync
       THEN ValidateCatch(s1, NotAFunction)
       ELSE IF schemaType = "zod" \/ schemaType = "yup"
       THEN PassStep(s1, "schema", "none", 0, EmptyMap)
       ELSE ValidateCatch(s1, UnsupportedError)

\* (mutant) isValidating is released only by the last pass in flight
ValidateFinishLastOnly(state, asyncErrors) ==
    LET release(s) == IF Len(passes) > 1 THEN s
                      ELSE formReducer(s, [type |-> "SET_VALIDATING", payload |-> FALSE])
    IN IF DOMAIN asyncErrors # {}
       THEN PassStep(release(formReducer(state,
                         [type |-> "SET_ERRORS", payload |-> asyncErrors])),
                     "done", "false", 0, EmptyMap)
       ELSE PassStep(release(state), "done", "true", 0, EmptyMap)

\* After the loop over the async validators: SET_ERRORS and false when any
\* error was collected, true otherwise; then the finally block.
ValidateFinish(state, asyncErrors) ==
    IF DOMAIN asyncErrors # {}
    THEN PassStep(formReducer(formReducer(state,
                      [type |-> "SET_ERRORS", payload |-> asyncErrors]),
                      [type |-> "SET_VALIDATING", payload |-> FALSE]),
                  "done", "false", 0, EmptyMap)
    ELSE PassStep(formReducer(state, [type |-> "SET_VALIDATING", payload |-> FALSE]),
                  "done", "true", 0, EmptyMap)

\* (mutant) the pass returns the isValid it found when the schema settled,
\* not the outcome of this validation
ValidateSchemaOkStale(state) ==
    LET s1 == formReducer(state, [type |-> "SET_ERRORS", payload |-> EmptyMap])
        r == ValidateFinish(s1, EmptyMap)
    IN IF Len(asyncValidators) = 0
       THEN [r EXCEPT !.ret = IF state.isValid THEN "true" ELSE "false"]
       ELSE PassStep(s1, "async", "none", 1, EmptyMap)

\* (mutant) the errors of an earlier pass are not cleared when the schema accepts
ValidateSchemaOkKeepsErrors(state) ==
    IF Len(asyncValidators) = 0
    THEN ValidateFinish(state, EmptyMap)
    ELSE PassStep(state, "async", "none", 1, EmptyMap)

\* The schema accepted: SET_ERRORS {}, then the first async validator is
\* called, or the loop is empty.
ValidateSchemaOk(state) ==
    LET s1 == formReducer(state, [type |-> "SET_ERRORS", payload |-> EmptyMap])
    IN IF Len(asyncValidators) = 0
       THEN ValidateFinish(s1, EmptyMap)
       ELSE PassStep(s1, "async", "none", 1, EmptyMap)

\* What an async validator's promise settles with.
AsyncOutcomes == {Null, "", "taken", Rejects}

\* (mutant) if (error !== null) instead of if (error)
AsyncRecordNonNull(asyncErrors, field, outcome) ==
    IF outcome = Rejects THEN (field :> GenericAsyncMessage) @@ asyncErrors
    ELSE IF outcome = Null THEN asyncErrors
    ELSE (field :> outcome) @@ asyncErrors

\* One turn of the loop: if (error) asyncErrors[field] = error; the catch
\* writes the generic message.
AsyncRecord(asyncErrors, field, outcome) ==
    IF outcome = Rejects THEN (field :> GenericAsyncMessage) @@ asyncErrors
    ELSE IF Falsy(outcome) THEN asyncErrors
    ELSE (field :> outcome) @@ asyncErrors

\* (mutant) a rejecting validator ends the loop: the validators after it are not called
ValidateAsyncAborts(state, pass, outcome) ==
    LET errs == AsyncRecord(pass.asyncErrors, asyncValidators[pass.idx], outcome)
    IN IF pass.idx < Len(asyncValidators) /\ outcome # Rejects
       THEN PassStep(state, "async", "none", pass.idx + 1, errs)
       ELSE ValidateFinish(state, errs)

ValidateAsyncSettled(state, pass, outcome) ==
    LET errs == AsyncRecord(pass.asyncErrors, asyncValidators[pass.idx], outcome)
    IN IF pass.idx < Len(asyncValidators)
       THEN PassStep(state, "async", "none", pass.idx + 1, errs)
       ELSE ValidateFinish(state, errs)

\* A pass in flight; outs keeps what its validators settled with so far and
\* alone whether no other pass was in flight with it.
NewPass(owner, values, r, outs, alone) ==
    [owner |-> owner, pc |-> r.pc, snap |-> values, idx |-> r.idx,
     asyncErrors |-> r.asyncErrors, outs |-> outs, alone |-> alone]
Overlapped(ps) == [k \in 1..Len(ps) |-> [ps[k] EXCEPT !.alone = FALSE]]

\* A handler calls validate(values): the pass starts and, for an unsupported
\* schema, has returned within the call.
CallValidate(state, values, owner, op) ==
    LET r == ValidateBegin(state) IN
    /\ r.pc # "done" => Len(passes) < MaxPasses
    /\ st' = r.st
    /\ passes' = IF r.pc = "done" THEN passes ELSE Append(Overlapped(passes),
                                   NewPass(owner, values, r, << >>, passes = << >>))
    /\ last' = Event(op, r.ret, values, owner, << >>)

\* The pass passes[k] goes on after the promise it awaited settled.
ContinuePass(k, r, op, outs) ==
    LET p == passes[k] IN
    /\ st' = r.st
    /\ IF r.pc = "done"
       THEN /\ passes' = RemoveAt(passes, k)
            /\ subs' = IF p.owner # NoOwner
                       THEN [subs EXCEPT ![p.owner].pc = "validated",
                                         ![p.owner].valid = r.ret]
                       ELSE subs
            /\ last' = [Event(op, r.ret, p.snap, p.owner, outs) EXCEPT !.alone = p.alone]
       ELSE /\ passes' = [passes EXCEPT ![k] = NewPass(p.owner, p.snap, r, outs, p.alone)]
            /\ subs' = subs
            /\ last' = Quiet(op)

SchemaSettle(k) ==
    /\ passes[k].pc = "schema"
    /\ \E o \in SchemaOutcomes(schemaType, passes[k].snap) :
          ContinuePass(k, IF o.ok THEN ValidateSchemaOk(st) ELSE ValidateCatch(st, o.error),
                       "schemaSettle", << >>)
    /\ UNCHANGED <<opts, schemaType, asyncValidators, rendered, timers, ops>>

AsyncSettle(k) ==
    /\ passes[k].pc = "async"
    /\ \E o \in AsyncOutcomes :
          ContinuePass(k, ValidateAsyncSettled(st, passes[k], o), "asyncSettle",
                       Append(passes[k].outs, o))
    /\ UNCHANGED <<opts, schemaType, asyncValidators, rendered, timers, ops>>

\* --------------------------------------------------------------- debounce
\* clearTimeout(timeoutRef.current): the timeout the ref holds, if still pending
ClearTimeout(ts) == SelectSeq(ts, LAMBDA t : ~t.cur)

\* A call of the debounced function: clear the ref's timeout, set a new one.
useDebounce(ts, t) == Append(ClearTimeout(ts), t)

\* ---------------------------------------------------------------- handlers
\* The events handleChange is called with.
Events == [type : {"text"}, value : Val, checked : {FALSE}]

\* (mutant) the raw input value is taken for every control type
EventValueRaw(e) == e.value

EventValue(e) == IF e.type = "checkbox" THEN e.checked ELSE e.value

\* handleChange(field)(event).  The timeout holds the validate of the render
\* the handler was created in; field and value are kept with it to tell which
\* change set it.
HandleChange(field, e) ==
    /\ ops < MaxOps
    /\ ops' = ops + 1
    /\ st' = formReducer(st, [type |-> "SET_VALUE", field |-> field, payload |-> EventValue(e)])
    /\ timers' = IF opts.validateOnChange
                 THEN useDebounce(timers, [cur |-> TRUE, snap |-> rendered,
                                           field |-> field, value |-> EventValue(e)])
                 ELSE timers
    /\ last' = Quiet("handleChange")
    /\ UNCHANGED <<opts, schemaType, asyncValidators, rendered, passes, subs>>

\* The timeout elapsed: callback(), the validate captured when it was set.
TimerFire(k) ==
    /\ timers' = RemoveAt(timers, k)
    /\ CallValidate(st, timers[k].snap, NoOwner, "timerFire")
    /\ UNCHANGED <<opts, schemaType, asyncValidators, rendered, subs, ops>>

\* (mutant) handleBlur goes through the debounce timer as handleChange does
HandleBlurDebounced(field) ==
    /\ ops < MaxOps
    /\ ops' = ops + 1
    /\ st' = formReducer(st, [type |-> "SET_TOUCHED", field |-> field, payload |-> TRUE])
    /\ timers' = IF opts.validateOnBlur
                 THEN useDebounce(timers, [cur |-> TRUE, snap |-> rendered,
                                           field |-> field, value |-> rendered[field]])
                 ELSE timers
    /\ last' = Quiet("handleBlur")
    /\ UNCHANGED <<opts, schemaType, asyncValidators, rendered, passes, subs>>

\* handleBlur(field)(event)
HandleBlur(field) ==
    /\ ops < MaxOps
    /\ ops' = ops + 1
    /\ LET s1 == formReducer(st, [type |-> "SET_TOUCHED", field |-> field, payload |-> TRUE])
       IN IF opts.validateOnBlur
          THEN CallValidate(s1, rendered, NoOwner, "handleBlur")
          ELSE /\ st' = s1
               /\ passes' = passes
               /\ last' = Quiet("handleBlur")
    /\ UNCHANGED <<opts, schemaType, asyncValidators, rendered, timers, subs>>

\* An optional argument: << >> when left out, <<v>> when given.
NoArg == << >>
Given(v) == << v >>

\* The arguments the host calls validate with.
ValidateArgs == {NoArg, Given([f \in Fields |-> ""])}

\* validate(values) called by the host; values defaults to state.values of
\* the render.
Validate(arg) ==
    /\ ops < MaxOps
    /\ ops' = ops + 1
    /\ CallValidate(st, IF arg = NoArg THEN rendered ELSE arg[1],
                    NoOwner, "validate")
    /\ UNCHANGED <<opts, schemaType, asyncValidators, rendered, timers, subs>>

\* (mutant) RESET dispatched with the argument as it is: resetForm() keeps
\* the current values
resetFormKeepsCurrent(state, arg) ==
    IF arg = NoArg
    THEN formReducer(state, [type |-> "RESET"])
    ELSE formReducer(state, [type |-> "RESET", payload |-> arg[1]])

\* resetForm(values): RESET with values || initialValues
resetForm(state, arg) ==
    formReducer(state, [type |-> "RESET",
                        payload |-> IF arg = NoArg THEN opts.initialValues ELSE arg[1]])

\* (mutant) the attempt is not counted when handleSubmit is called
HandleSubmitUncounted ==
    /\ ops < MaxOps
    /\ Len(subs) < MaxSubmits
    /\ ops' = ops + 1
    /\ LET i == Len(subs) + 1
           r == ValidateBegin(st)
       IN /\ CallValidate(st, rendered, i, "handleSubmit")
          /\ subs' = Append(subs, [pc |-> IF r.pc = "done" THEN "validated" ELSE "validating",
                                   snap |-> rendered, valid |-> r.ret,
                                   cb |-> "none", result |-> "none"])
    /\ UNCHANGED <<opts, schemaType, asyncValidators, rendered, timers>>

\* (mutant) handleSubmit reads the values of the store when it is called
HandleSubmitLive ==
    /\ ops < MaxOps
    /\ Len(subs) < MaxSubmits
    /\ ops' = ops + 1
    /\ LET i == Len(subs) + 1
           s1 == formReducer(st, [type |-> "SUBMIT_ATTEMPT"])
           r == ValidateBegin(s1)
       IN /\ CallValidate(s1, st.values, i, "handleSubmit")
          /\ subs' = Append(subs, [pc |-> IF r.pc = "done" THEN "validated" ELSE "validating",
                                   snap |-> st.values, valid |-> r.ret,
                                   cb |-> "none", result |-> "none"])
    /\ UNCHANGED <<opts, schemaType, asyncValidators, rendered, timers>>

\* (mutant) validate() is not awaited: the promise it returns is taken for
\* the result and the invocation goes on at once
HandleSubmitNoAwait ==
    /\ ops < MaxOps
    /\ Len(subs) < MaxSubmits
    /\ ops' = ops + 1
    /\ LET i == Len(subs) + 1
           s1 == formReducer(st, [type |-> "SUBMIT_ATTEMPT"])
       IN /\ CallValidate(s1, rendered, i, "handleSubmit")
          /\ subs' = Append(subs, [pc |-> "validated",
                                   snap |-> rendered, valid |-> "true",
                                   cb |-> "none", result |-> "none"])
    /\ UNCHANGED <<opts, schemaType, asyncValidators, rendered, timers>>

\* (mutant) SET_SUBMITTING true dispatched when handleSubmit is called, before
\* the validation
HandleSubmitSubmitting ==
    /\ ops < MaxOps
    /\ Len(subs) < MaxSubmits
    /\ ops' = ops + 1
    /\ LET i == Len(subs) + 1
           s1 == formReducer(formReducer(st, [type |-> "SUBMIT_ATTEMPT"]),
                             [type |-> "SET_SUBMITTING", payload |-> TRUE])
           r == ValidateBegin(s1)
       IN /\ CallValidate(s1, rendered, i, "handleSubmit")
          /\ subs' = Append(subs, [pc |-> IF r.pc = "done" THEN "validated" ELSE "validating",
                                   snap |-> rendered, valid |-> r.ret,
                                   cb |-> "none", result |-> "none"])
    /\ UNCHANGED <<opts, schemaType, asyncValidators, rendered, timers>>

\* handleSubmit(event), up to await validate()
HandleSubmit ==
    /\ ops < MaxOps
    /\ Len(subs) < MaxSubmits
    /\ ops' = ops + 1
    /\ LET i == Len(subs) + 1
           s1 == formReducer(st, [type |-> "SUBMIT_ATTEMPT"])
           r == ValidateBegin(s1)
       IN /\ CallValidate(s1, rendered, i, "handleSubmit")
          /\ subs' = Append(subs, [pc |-> IF r.pc = "done" THEN "validated" ELSE "validating",
                                   snap |-> rendered, valid |-> r.ret,
                                   cb |-> "none", result |-> "none"])
    /\ UNCHANGED <<opts, schemaType, asyncValidators, rendered, timers>>

\* How the onSubmit call ends: it returns (a promise or nothing) and the
\* await settles later, or it throws within the call.
OnSubmitCalls == {"pending", "threw"}
OnSubmitSettles == {"resolved", "rejected"}

\* (mutant) if (isValid) taken whatever validate resolved with
SubmitProceedsAlways(isValid) == isValid # "rejected"

\* if (isValid): validate() resolved true
SubmitProceeds(isValid) == isValid = "true"

\* (mutant) resetForm() run on every exit, as if it stood in the finally block
SubmitSettledResetAlways(state, c) ==
    IF opts.resetOnSubmit THEN resetForm(state, NoArg) ELSE state

\* The try block after await onSubmit, and the catch: resetForm() when the
\* callback resolved and resetOnSubmit is set; an error is only logged.
SubmitSettled(state, c) ==
    IF c = "resolved" /\ opts.resetOnSubmit THEN resetForm(state, NoArg) ELSE state

\* (mutant) the finally block releases isSubmitting only
SubmitFinallyPlain(state) == [state EXCEPT !.isSubmitting = FALSE]

\* (mutant) the finally block left out
SubmitFinallySkipped(state) == state

\* finally { SET_SUBMITTING false }
SubmitFinally(state) == formReducer(state, [type |-> "SET_SUBMITTING", payload |-> FALSE])

\* (mutant) a re-entrancy guard: onSubmit is not called while isSubmitting
SubmitContinueGuarded(i) ==
    /\ subs[i].pc = "validated"
    /\ IF SubmitProceeds(subs[i].valid) /\ ~st.isSubmitting
       THEN \E c \in OnSubmitCalls :
              LET s1 == formReducer(st, [type |-> "SET_SUBMITTING", payload |-> TRUE])
              IN IF c = "threw"
                 THEN /\ st' = SubmitFinally(SubmitSettled(s1, c))
                      /\ subs' = [subs EXCEPT ![i].pc = "done", ![i].cb = "threw", ![i].valid = "none",
                                              ![i].result = "resolved"]
                 ELSE /\ st' = s1
                      /\ subs' = [subs EXCEPT ![i].pc = "submitting", ![i].cb = "pending", ![i].valid = "none"]
       ELSE /\ st' = st
            /\ subs' = [subs EXCEPT ![i].pc = "done", ![i].valid = "none",
                                    ![i].result = IF subs[i].valid = "rejected"
                                                  THEN "rejected" ELSE "resolved"]
    /\ last' = Event("submitContinue", "none", subs[i].snap, i, << >>)
    /\ UNCHANGED <<opts, schemaType, asyncValidators, rendered, timers, passes, ops>>

\* handleSubmit after await validate(): if (isValid) { SET_SUBMITTING true;
\* await onSubmit(state.values) ... }; a validate that threw rejects handleSubmit.
SubmitContinue(i) ==
    /\ subs[i].pc = "validated"
    /\ IF SubmitProceeds(subs[i].valid)
       THEN \E c \in OnSubmitCalls :
              LET s1 == formReducer(st, [type |-> "SET_SUBMITTING", payload |-> TRUE])
              IN IF c = "threw"
                 THEN /\ st' = SubmitFinally(SubmitSettled(s1, c))
                      /\ subs' = [subs EXCEPT ![i].pc = "done", ![i].cb = "threw", ![i].valid = "none",
                                              ![i].result = "resolved"]
                 ELSE /\ st' = s1
                      /\ subs' = [subs EXCEPT ![i].pc = "submitting", ![i].cb = "pending", ![i].valid = "none"]
       ELSE /\ st' = st
            /\ subs' = [subs EXCEPT ![i].pc = "done", ![i].valid = "none",
                                    ![i].result = IF subs[i].valid = "rejected"
                                                  THEN "rejected" ELSE "resolved"]
    /\ last' = Event("submitContinue", "none", subs[i].snap, i, << >>)
    /\ UNCHANGED <<opts, schemaType, asyncValidators, rendered, timers, passes, ops>>

\* The promise onSubmit returned settled: resetForm() if resetOnSubmit, or the
\* catch; then the finally block.
OnSubmitSettle(i) ==
    /\ subs[i].pc = "submitting"
    /\ \E c \in OnSubmitSettles :
          /\ st' = SubmitFinally(SubmitSettled(st, c))
          /\ subs' = [subs EXCEPT ![i].pc = "done", ![i].cb = c, ![i].result = "resolved"]
    /\ last' = Event("onSubmitSettle", "none", subs[i].snap, i, << >>)
    /\ UNCHANGED <<opts, schemaType, asyncValidators, rendered, timers, passes, ops>>

\* React renders: the closures now read the store's values.
Render ==
    /\ rendered # st.values
    /\ rendered' = st.values
    /\ last' = Quiet("render")
    /\ UNCHANGED <<opts, schemaType, asyncValidators, st, timers, passes, subs, ops>>

Next ==
    \/ \E f \in Fields, e \in Events : HandleChange(f, e)
    \/ \E k \in 1..Len(timers) : TimerFire(k)
    \/ \E f \in Fields : HandleBlur(f)
    \/ \E arg \in ValidateArgs : Validate(arg)
    \/ HandleSubmit
    \/ \E k \in 1..Len(passes) : SchemaSettle(k)
    \/ \E i \in 1..Len(subs) : SubmitContinue(i)
    \/ \E i \in 1..Len(subs) : OnSubmitSettle(i)
    \/ Render

Spec == Init /\ [][Next]_vars

\* ------------------------------------------- with registered async validators
\* The hook creates the registry empty (asyncValidators = useRef([])) and has
\* no operation that adds to it, so under Spec the loop over the validators
\* never runs.  SpecAsync is the hook with the caller-registered validators of
\* the design in the registry.
Registries == {<<"a", "b">>, <<"b", "b">>}

OptionsAsync ==
    [schema : {ZodSchema},
     initialValues : {InitialValues},
     validateOnChange : {TRUE},
     validateOnBlur : {TRUE},
     resetOnSubmit : {FALSE}]

InitAsync ==
    /\ opts \in OptionsAsync
    /\ schemaType = detectSchemaType(opts.schema)
    /\ asyncValidators \in Registries
    /\ st = InitialState(opts.initialValues)
    /\ rendered = opts.initialValues
    /\ timers = << >>
    /\ passes = << >>
    /\ subs = << >>
    /\ ops = 0
    /\ last = Quiet("init")

NextAsync ==
    \/ Next
    \/ \E k \in 1..Len(passes) : AsyncSettle(k)

SpecAsync == InitAsync /\ [][NextAsync]_vars

\* ------------------------------------------------------------- fairness
\* The event loop runs the continuation of every settled promise, and the
\* promises awaited (the schema's validation, onSubmit) settle.
Settles ==
    \/ \E k \in 1..Len(passes) : SchemaSettle(k)
    \/ \E i \in 1..Len(subs) : SubmitContinue(i)
    \/ \E i \in 1..Len(subs) : OnSubmitSettle(i)

SpecLive == Init /\ [][Next]_vars /\ WF_vars(Settles)

\* ------------------------------------------------ every exit of a pass
\* SpecPasses has every way a validation pass can end: the schemas of the
\* three kinds, with and without async validators in the registry, and a
\* schema whose validation fails with something other than its validation
\* error (a test function that throws).
OtherError == [message |-> "test function threw"]

\* await schema.parseAsync / schema.validate rejects with an error that has
\* neither errors, inner nor path.
SchemaThrows(k) ==
    /\ passes[k].pc = "schema"
    /\ ContinuePass(k, ValidateCatch(st, OtherError), "schemaThrows", << >>)
    /\ UNCHANGED <<opts, schemaType, asyncValidators, rendered, timers, ops>>

OptionsPasses ==
    [schema : SchemaObjects,
     initialValues : {InitialValues},
     validateOnChange : {TRUE},
     validateOnBlur : {TRUE},
     resetOnSubmit : {FALSE}]

InitPasses ==
    /\ opts \in OptionsPasses
    /\ schemaType = detectSchemaType(opts.schema)
    /\ asyncValidators \in {<< >>, <<"a", "b">>}
    /\ st = InitialState(opts.initialValues)
    /\ rendered = opts.initialValues
    /\ timers = << >>
    /\ passes = << >>
    /\ subs = << >>
    /\ ops = 0
    /\ last = Quiet("init")

NextPasses ==
    \/ NextAsync
    \/ \E k \in 1..Len(passes) : SchemaThrows(k)

SpecPasses == InitPasses /\ [][NextPasses]_vars

\* ---------------------------------------------- the setters and resetForm
\* SpecApi adds the direct setters and resetForm to the handlers of Spec.
\* A call is recorded in last with its arguments.
Call(op, args) == [args |-> args] @@ Quiet(op)

\* (mutant) setValue schedules the debounced validation as handleChange does
SetValueValidates(field, value) ==
    /\ ops < MaxOps
    /\ ops' = ops + 1
    /\ st' = formReducer(st, [type |-> "SET_VALUE", field |-> field, payload |-> value])
    /\ timers' = IF opts.validateOnChange
                 THEN useDebounce(timers, [cur |-> TRUE, snap |-> rendered,
                                           field |-> field, value |-> value])
                 ELSE timers
    /\ last' = Call("setValue", <<field, value>>)
    /\ UNCHANGED <<opts, schemaType, asyncValidators, rendered, passes, subs>>

\* setValue(field, value)
SetValue(field, value) ==
    /\ ops < MaxOps
    /\ ops' = ops + 1
    /\ st' = formReducer(st, [type |-> "SET_VALUE", field |-> field, payload |-> value])
    /\ last' = Call("setValue", <<field, value>>)
    /\ UNCHANGED <<opts, schemaType, asyncValidators, rendered, timers, passes, subs>>

\* setValues(values)
SetValues(values) ==
    /\ ops < MaxOps
    /\ ops' = ops + 1
    /\ st' = formReducer(st, [type |-> "SET_VALUES", payload |-> values])
    /\ last' = Call("setValues", <<values>>)
    /\ UNCHANGED <<opts, schemaType, asyncValidators, rendered, timers, passes, subs>>

\* setError(field, error)
SetError(field, error) ==
    /\ ops < MaxOps
    /\ ops' = ops + 1
    /\ st' = formReducer(st, [type |-> "SET_ERROR", field |-> field, payload |-> error])
    /\ last' = Call("setError", <<field, error>>)
    /\ UNCHANGED <<opts, schemaType, asyncValidators, rendered, timers, passes, subs>>

\* setErrors(errors)
SetErrors(errors) ==
    /\ ops < MaxOps
    /\ ops' = ops + 1
    /\ st' = formReducer(st, [type |-> "SET_ERRORS", payload |-> errors])
    /\ last' = Call("setErrors", <<errors>>)
    /\ UNCHANGED <<opts, schemaType, asyncValidators, rendered, timers, passes, subs>>

\* setTouched(field, touched = true)
SetTouched(field, arg) ==
    /\ ops < MaxOps
    /\ ops' = ops + 1
    /\ st' = formReducer(st, [type |-> "SET_TOUCHED", field |-> field,
                              payload |-> IF arg = NoArg THEN TRUE ELSE arg[1]])
    /\ last' = Call("setTouched", <<field, arg>>)
    /\ UNCHANGED <<opts, schemaType, asyncValidators, rendered, timers, passes, subs>>

\* resetForm(values)
ResetForm(arg) ==
    /\ ops < MaxOps
    /\ ops' = ops + 1
    /\ st' = resetForm(st, arg)
    /\ last' = Call("resetForm", arg)
    /\ UNCHANGED <<opts, schemaType, asyncValidators, rendered, timers, passes, subs>>

\* The arguments the host calls the setters with.
ResetArgs == {NoArg, Given([f \in Fields |-> ""])}
TouchedArgs == {NoArg, Given(FALSE)}
SetErrorsArgs == {EmptyMap, ("a" :> "required")}

OptionsApi ==
    [schema : {ZodSchema},
     initialValues : {InitialValues},
     validateOnChange : BOOLEAN,
     validateOnBlur : BOOLEAN,
     resetOnSubmit : BOOLEAN]

InitApi ==
    /\ opts \in OptionsApi
    /\ schemaType = detectSchemaType(opts.schema)
    /\ asyncValidators = << >>
    /\ st = InitialState(opts.initialValues)
    /\ rendered = opts.initialValues
    /\ timers = << >>
    /\ passes = << >>
    /\ subs = << >>
    /\ ops = 0
    /\ last = Quiet("init")

NextApi ==
    \/ Next
    \/ SetValue("a", "")
    \/ SetValues(("b" :> ""))
    \/ SetError("b", "taken")
    \/ \E errors \in SetErrorsArgs : SetErrors(errors)
    \/ \E arg \in TouchedArgs : SetTouched("a", arg)
    \/ \E arg \in ResetArgs : ResetForm(arg)

SpecApi == InitApi /\ [][NextApi]_vars

\* ------------------------------------------------------ checkbox controls
\* SpecChange adds change events of a checkbox to the handlers of Spec: its
\* value attribute is "on" and its checked flag is true (JsTrue stands for
\* the boolean true as a form value).
JsTrue == "<true>"
CheckboxEvents == [type : {"checkbox"}, value : {"on"}, checked : {JsTrue}]

OptionsChange ==
    [schema : {ZodSchema},
     initialValues : {InitialValues},
     validateOnChange : BOOLEAN,
     validateOnBlur : {FALSE},
     resetOnSubmit : {FALSE}]

InitChange ==
    /\ opts \in OptionsChange
    /\ schemaType = detectSchemaType(opts.schema)
    /\ asyncValidators = << >>
    /\ st = InitialState(opts.initialValues)
    /\ rendered = opts.initialValues
    /\ timers = << >>
    /\ passes = << >>
    /\ subs = << >>
    /\ ops = 0
    /\ last = Quiet("init")

NextChange ==
    \/ Next
    \/ \E e \in CheckboxEvents : HandleChange("b", e)

SpecChange == InitChange /\ [][NextChange]_vars

\* ------------------------------------------------------- validate, twice
\* SpecTwice adds a second validate() called right after the promise of a
\* first one resolved, on the same values.  The second pass carries what
\* the first one left (first) to the state in which it ends.
FirstResult == [errors |-> st.errors, isValid |-> st.isValid, ret |-> last.ret]

\* validate() again: nothing is in flight and the values of the render are
\* those the pass that has just returned validated.
ValidateAgain ==
    /\ ops < MaxOps
    /\ last.op \in {"validate", "schemaSettle"}
    /\ last.ret # "none"
    /\ last.owner = NoOwner
    /\ passes = << >>
    /\ rendered = last.snap
    /\ ops' = ops + 1
    /\ LET r == ValidateBegin(st) IN
          /\ st' = r.st
          /\ passes' = IF r.pc = "done" THEN passes
                       ELSE << [first |-> FirstResult]
                               @@ NewPass(NoOwner, rendered, r, << >>, TRUE) >>
          /\ last' = [first |-> FirstResult]
                     @@ Event("validateAgain", r.ret, rendered, NoOwner, << >>)
    /\ UNCHANGED <<opts, schemaType, asyncValidators, rendered, timers, subs>>

\* The schema's validation of the second pass settled.
SettleAgain(k) ==
    /\ passes[k].pc = "schema"
    /\ "first" \in DOMAIN passes[k]
    /\ \E o \in SchemaOutcomes(schemaType, passes[k].snap) :
          LET r == IF o.ok THEN ValidateSchemaOk(st) ELSE ValidateCatch(st, o.error)
          IN /\ st' = r.st
             /\ last' = [first |-> passes[k].first]
                        @@ [Event("settleAgain", r.ret, passes[k].snap, NoOwner, << >>)
                               EXCEPT !.alone = passes[k].alone]
    /\ passes' = RemoveAt(passes, k)
    /\ UNCHANGED <<opts, schemaType, asyncValidators, rendered, timers, subs, ops>>

OptionsTwice ==
    [schema : SchemaObjects,
     initialValues : {InitialValues},
     validateOnChange : {TRUE},
     validateOnBlur : {TRUE},
     resetOnSubmit : {FALSE}]

InitTwice ==
    /\ opts \in OptionsTwice
    /\ schemaType = detectSchemaType(opts.schema)
    /\ asyncValidators = << >>
    /\ st = InitialState(opts.initialValues)
    /\ rendered = opts.initialValues
    /\ timers = << >>
    /\ passes = << >>
    /\ subs = << >>
    /\ ops = 0
    /\ last = Quiet("init")

NextTwice ==
    \/ Next
    \/ ValidateAgain
    \/ \E k \in 1..Len(passes) : SettleAgain(k)

SpecTwice == InitTwice /\ [][NextTwice]_vars

\* ------------------------------------- before the errors are first cleared
\* SpecPristine is the hook from its construction up to the first dispatch
\* of SET_ERRORS with an empty map or of RESET: the steps that dispatch one
\* are left out.  Starting a pass dispatches neither (246-257); a pass whose
\* schema validation settles dispatches SET_ERRORS with the map it leaves
\* (260, 295, 305, 318); setErrors dispatches its argument; resetForm and a
\* resolved onSubmit under resetOnSubmit dispatch RESET.  onSubmit is called
\* only by a step that dispatches SET_SUBMITTING true, so its settling takes
\* no part as long as no invocation awaits it.
SettleWithErrors(k) == SchemaSettle(k) /\ st'.errors # EmptyMap

NextPristine ==
    \/ \E f \in Fields, e \in Events : HandleChange(f, e)
    \/ \E k \in 1..Len(timers) : TimerFire(k)
    \/ \E f \in Fields : HandleBlur(f)
    \/ \E arg \in ValidateArgs : Validate(arg)
    \/ HandleSubmit
    \/ \E k \in 1..Len(passes) : SettleWithErrors(k)
    \/ \E i \in 1..Len(subs) : SubmitContinue(i)
    \/ Render
    \/ SetValue("a", "")
    \/ SetValues(("b" :> ""))
    \/ SetError("b", "taken")
    \/ \E errors \in SetErrorsArgs \ {EmptyMap} : SetErrors(errors)
    \/ \E arg \in TouchedArgs : SetTouched("a", arg)

SpecPristine == InitApi /\ [][NextPristine]_vars

\* ------------------------------------------------ the failures of a schema
\* SpecCatch lets the schema reject a validation with any failure of a
\* bounded set instead of those of the rules above: up to MaxEntries
\* entries, with paths that are empty, name a field or lead into a field,
\* in the shape of the library.  last keeps the failure (error).
Messages == {"required", "short"}
SeqsUpTo(S, n) == UNION {[1..k -> S] : k \in 1..n}
ZodErrors ==
    {[errors |-> es] :
        es \in SeqsUpTo([path : {<< >>, <<"a">>, <<"b">>, <<"a", "street">>},
                         message : Messages], MaxEntries)}
YupErrorEntries == [path : {"", "a", "b"}, message : Messages]
YupErrors ==
    {[inner |-> es, message |-> "errors occurred"] :
        es \in SeqsUpTo(YupErrorEntries, MaxEntries)}
    \cup YupErrorEntries

\* The schema's validation of passes[k] rejected with error.
SchemaRejects(k, error) ==
    /\ passes[k].pc = "schema"
    /\ LET r == ValidateCatch(st, error)
           p == passes[k]
       IN /\ st' = r.st
          /\ last' = [error |-> error]
                     @@ [Event("schemaRejects", r.ret, p.snap, p.owner, << >>)
                            EXCEPT !.alone = p.alone]
    /\ passes' = RemoveAt(passes, k)
    /\ UNCHANGED <<opts, schemaType, asyncValidators, rendered, timers, subs, ops>>

OptionsCatch ==
    [schema : {ZodSchema, YupSchema},
     initialValues : {InitialValues},
     validateOnChange : {FALSE},
     validateOnBlur : {TRUE},
     resetOnSubmit : {FALSE}]

InitCatch ==
    /\ opts \in OptionsCatch
    /\ schemaType = detectSchemaType(opts.schema)
    /\ asyncValidators = << >>
    /\ st = InitialState(opts.initialValues)
    /\ rendered = opts.initialValues
    /\ timers = << >>
    /\ passes = << >>
    /\ subs = << >>
    /\ ops = 0
    /\ last = Quiet("init")

NextCatch ==
    \/ \E arg \in ValidateArgs : Validate(arg)
    \/ \E f \in Fields : HandleBlur(f)
    \/ \E k \in 1..Len(passes) :
          \E error \in IF schemaType = "zod" THEN ZodErrors ELSE YupErrors :
             SchemaRejects(k, error)

SpecCatch == InitCatch /\ [][NextCatch]_vars

\* ------------------------------------------------ failures without a key
\* SpecKeys lets the schema reject with failures whose entries have no
\* usable key: an empty path or a path that starts with the index 0 (Zod),
\* an empty or missing path (Yup).
KeylessZodErrors ==
    {[errors |-> es] :
        es \in SeqsUpTo([path : {<< >>, <<Zero>>, <<Zero, "a">>, <<"a">>},
                         message : {"required"}], MaxEntries)}
KeylessYupErrors ==
    LET entries == [path : {"", Undefined, "a"}, message : {"required"}]
    IN {[inner |-> es, message |-> "errors occurred"] :
           es \in SeqsUpTo(entries, MaxEntries)}
       \cup entries

NextKeys ==
    \/ \E arg \in ValidateArgs : Validate(arg)
    \/ \E f \in Fields : HandleBlur(f)
    \/ \E k \in 1..Len(passes) :
          \E error \in IF schemaType = "zod" THEN KeylessZodErrors ELSE KeylessYupErrors :
             SchemaRejects(k, error)

SpecKeys == InitCatch /\ [][NextKeys]_vars

\* ------------------------------------------------ schema objects of any kind
\* SpecDetect is the hook given any value as schema: a non-object, or an
\* object with any combination of the capabilities probed or called.
SchemaInputs ==
    [isObject : BOOLEAN, safeParse : BOOLEAN, def : BOOLEAN,
     isYupSchema : BOOLEAN, validate : BOOLEAN, parseAsync : BOOLEAN]

OptionsDetect ==
    [schema : SchemaInputs,
     initialValues : {InitialValues},
     validateOnChange : {FALSE},
     validateOnBlur : {TRUE},
     resetOnSubmit : {FALSE}]

InitDetect ==
    /\ opts \in OptionsDetect
    /\ schemaType = detectSchemaType(opts.schema)
    /\ asyncValidators = << >>
    /\ st = InitialState(opts.initialValues)
    /\ rendered = opts.initialValues
    /\ timers = << >>
    /\ passes = << >>
    /\ subs = << >>
    /\ ops = 0
    /\ last = Quiet("init")

NextDetect ==
    \/ \E arg \in ValidateArgs : Validate(arg)
    \/ \E f \in Fields : HandleBlur(f)
    \/ \E k \in 1..Len(passes) : SchemaSettle(k)

SpecDetect == InitDetect /\ [][NextDetect]_vars

\* ----------------------------------------------------------------- unmount
\* SpecUnmount adds the teardown of the component.  After it the host makes
\* no call and React renders nothing: ops is moved past MaxOps, which
\* disables the handlers.  Timeouts and promises that were pending are not
\* affected by React and go on.
Unmounted == ops > MaxOps

\* The cleanup of the unmount effect: clearTimeout for every entry of
\* validationTimeouts, a map nothing is ever put in.  The timeout of
\* useDebounce is held in its own ref and is left pending.
validationTimeouts == << >>
Unmount ==
    /\ ~Unmounted
    /\ ops' = MaxOps + 1
    /\ timers' = SelectSeq(timers, LAMBDA t :
                     \A i \in 1..Len(validationTimeouts) : validationTimeouts[i] # t)
    /\ last' = Quiet("unmount")
    /\ UNCHANGED <<opts, schemaType, asyncValidators, st, rendered, passes, subs>>

OptionsUnmount ==
    [schema : {ZodSchema},
     initialValues : {InitialValues},
     validateOnChange : {TRUE},
     validateOnBlur : BOOLEAN,
     resetOnSubmit : {FALSE}]

InitUnmount ==
    /\ opts \in OptionsUnmount
    /\ schemaType = detectSchemaType(opts.schema)
    /\ asyncValidators = << >>
    /\ st = InitialState(opts.initialValues)
    /\ rendered = opts.initialValues
    /\ timers = << >>
    /\ passes = << >>
    /\ subs = << >>
    /\ ops = 0
    /\ last = Quiet("init")

NextUnmount ==
    \/ \E f \in Fields, e \in Events : HandleChange(f, e)
    \/ \E k \in 1..Len(timers) : TimerFire(k)
    \/ \E f \in Fields : HandleBlur(f)
    \/ \E arg \in ValidateArgs : Validate(arg)
    \/ HandleSubmit
    \/ \E k \in 1..Len(passes) : SchemaSettle(k)
    \/ \E i \in 1..Len(subs) : SubmitContinue(i)
    \/ \E i \in 1..Len(subs) : OnSubmitSettle(i)
    \/ ~Unmounted /\ Render
    \/ Unmount

SpecUnmount == InitUnmount /\ [][NextUnmount]_vars

\* ------------------------------------------------------- reinitialization
\* SpecReinit adds the enableReinitialize option and the host rendering the
\* component again with an initialValues object of a new identity (of the
\* same or of another content).
\* (mutant) the effect dispatches RESET without a payload
reinitializeKeepsValues(state, initialValues) ==
    IF opts.enableReinitialize
    THEN formReducer(state, [type |-> "RESET"])
    ELSE state

\* useEffect(() => { if (enableReinitialize) dispatch RESET initialValues },
\*           [initialValues, enableReinitialize])
reinitialize(state, initialValues) ==
    IF opts.enableReinitialize
    THEN formReducer(state, [type |-> "RESET", payload |-> initialValues])
    ELSE state

\* The host passes a new initialValues: the component renders with the
\* state of the store, then the effect runs.
ReinitValues == {InitialValues, [f \in Fields |-> ""]}
Reinitialize(initialValues) ==
    /\ ops < MaxOps
    /\ ops' = ops + 1
    /\ opts' = [opts EXCEPT !.initialValues = initialValues]
    /\ rendered' = st.values
    /\ st' = reinitialize(st, initialValues)
    /\ last' = Quiet("reinitialize")
    /\ UNCHANGED <<schemaType, asyncValidators, timers, passes, subs>>

OptionsReinit ==
    [schema : {ZodSchema},
     initialValues : {InitialValues},
     validateOnChange : {TRUE},
     validateOnBlur : {TRUE},
     resetOnSubmit : {FALSE},
     enableReinitialize : BOOLEAN]

\* The state after the mount: the effect has run once.
InitReinit ==
    /\ opts \in OptionsReinit
    /\ schemaType = detectSchemaType(opts.schema)
    /\ asyncValidators = << >>
    /\ st = reinitialize(InitialState(opts.initialValues), opts.initialValues)
    /\ rendered = opts.initialValues
    /\ timers = << >>
    /\ passes = << >>
    /\ subs = << >>
    /\ ops = 0
    /\ last = Quiet("init")

NextReinit ==
    \/ Next
    \/ \E initialValues \in ReinitValues : Reinitialize(initialValues)

SpecReinit == InitReinit /\ [][NextReinit]_vars

\* ------------------------------------------------ after a submission
\* SpecAfterSubmit is the hook, with its setters, without resetOnSubmit, from
\* its construction up to the first dispatch of SET_ERRORS with an empty map
\* or of RESET that follows the completion of a handleSubmit invocation that
\* called onSubmit: once such an invocation has completed, the steps that
\* dispatch one are left out.
SomeCompleted == \E i \in 1..Len(subs) : subs[i].pc = "done" /\ subs[i].cb # "none"

NextAfterSubmit ==
    \/ \E f \in Fields, e \in Events : HandleChange(f, e)
    \/ \E k \in 1..Len(timers) : TimerFire(k)
    \/ \E f \in Fields : HandleBlur(f)
    \/ \E arg \in ValidateArgs : Validate(arg)
    \/ HandleSubmit
    \/ \E k \in 1..Len(passes) :
          SchemaSettle(k) /\ (SomeCompleted => st'.errors # EmptyMap)
    \/ \E i \in 1..Len(subs) : SubmitContinue(i)
    \/ \E i \in 1..Len(subs) : OnSubmitSettle(i)
    \/ Render
    \/ SetValue("a", "")
    \/ SetValues(("b" :> ""))
    \/ SetError("b", "taken")
    \/ \E errors \in SetErrorsArgs :
          SetErrors(errors) /\ (SomeCompleted => errors # EmptyMap)
    \/ \E arg \in TouchedArgs : SetTouched("a", arg)
    \/ \E arg \in ResetArgs : ResetForm(arg) /\ ~SomeCompleted

InitAfterSubmit ==
    /\ opts \in OptionsAsync
    /\ schemaType = detectSchemaType(opts.schema)
    /\ asyncValidators = << >>
    /\ st = InitialState(opts.initialValues)
    /\ rendered = opts.initialValues
    /\ timers = << >>
    /\ passes = << >>
    /\ subs = << >>
    /\ ops = 0
    /\ last = Quiet("init")

SpecAfterSubmit == InitAfterSubmit /\ [][NextAfterSubmit]_vars

\* ------------------------------------------- passes over written errors
\* SpecReplace is the hook used through validate() and the setters of
\* values and errors, with and without registered async validators.  Each
\* step of a pass carries the errors map it found (before) to the state it
\* leaves.
PassContinues(k, r, op, outs) ==
    LET p == passes[k] IN
    /\ st' = r.st
    /\ passes' = IF r.pc = "done" THEN RemoveAt(passes, k)
                  ELSE [passes EXCEPT ![k] = NewPass(p.owner, p.snap, r, outs, p.alone)]
    /\ last' = [before |-> st.errors]
                @@ (IF r.pc = "done"
                    THEN [Event(op, r.ret, p.snap, p.owner, outs) EXCEPT !.alone = p.alone]
                    ELSE Quiet(op))
    /\ UNCHANGED <<opts, schemaType, asyncValidators, rendered, timers, subs, ops>>

SchemaSettles(k) ==
    /\ passes[k].pc = "schema"
    /\ \E o \in SchemaOutcomes(schemaType, passes[k].snap) :
          PassContinues(k, IF o.ok THEN ValidateSchemaOk(st) ELSE ValidateCatch(st, o.error),
                        "schemaSettle", << >>)

AsyncSettles(k) ==
    /\ passes[k].pc = "async"
    /\ \E o \in AsyncOutcomes :
          PassContinues(k, ValidateAsyncSettled(st, passes[k], o), "asyncSettle",
                        Append(passes[k].outs, o))

OptionsReplace ==
    [schema : {ZodSchema, YupSchema},
     initialValues : {InitialValues},
     validateOnChange : {TRUE},
     validateOnBlur : {TRUE},
     resetOnSubmit : {FALSE}]

InitReplace ==
    /\ opts \in OptionsReplace
    /\ schemaType = detectSchemaType(opts.schema)
    /\ asyncValidators \in {<< >>} \cup Registries
    /\ st = InitialState(opts.initialValues)
    /\ rendered = opts.initialValues
    /\ timers = << >>
    /\ passes = << >>
    /\ subs = << >>
    /\ ops = 0
    /\ last = Quiet("init")

NextReplace ==
    \/ \E arg \in ValidateArgs : Validate(arg)
    \/ \E k \in 1..Len(passes) : SchemaSettles(k)
    \/ \E k \in 1..Len(passes) : AsyncSettles(k)
    \/ Render
    \/ SetValue("a", "")
    \/ SetError("b", "taken")
    \/ \E errors \in SetErrorsArgs : SetErrors(errors)

SpecReplace == InitReplace /\ [][NextReplace]_vars

\* (mutant) resetForm cancels the passes in flight
ResetInFlightCancels(arg) ==
    /\ ops < MaxOps
    /\ ops' = ops + 1
    /\ st' = resetForm(st, arg)
    /\ passes' = << >>
    /\ last' = Call("resetForm", arg)
    /\ UNCHANGED <<opts, schemaType, asyncValidators, rendered, timers, subs>>

\* resetForm(values), with passes in flight
ResetInFlight(arg) ==
    /\ ops < MaxOps
    /\ ops' = ops + 1
    /\ st' = resetForm(st, arg)
    /\ passes' = [k \in 1..Len(passes) |-> [reset |-> TRUE] @@ passes[k]]
    /\ last' = Call("resetForm", arg)
    /\ UNCHANGED <<opts, schemaType, asyncValidators, rendered, timers, subs>>

\* The host passes a new initialValues, with passes in flight.
ReinitInFlight(initialValues) ==
    /\ ops < MaxOps
    /\ ops' = ops + 1
    /\ opts' = [opts EXCEPT !.initialValues = initialValues]
    /\ rendered' = st.values
    /\ st' = reinitialize(st, initialValues)
    /\ passes' = IF opts.enableReinitialize
                  THEN [k \in 1..Len(passes) |-> [reset |-> TRUE] @@ passes[k]]
                  ELSE passes
    /\ last' = Quiet("reinitialize")
    /\ UNCHANGED <<schemaType, asyncValidators, timers, subs>>

\* The schema's validation of a pass that was in flight at a Reset settled.
SettleAfterReset(k) ==
    /\ passes[k].pc = "schema"
    /\ "reset" \in DOMAIN passes[k]
    /\ \E o \in SchemaOutcomes(schemaType, passes[k].snap) :
          LET p == passes[k]
              r == IF o.ok THEN ValidateSchemaOk(st) ELSE ValidateCatch(st, o.error)
          IN /\ st' = r.st
             /\ subs' = IF p.owner # NoOwner
                        THEN [subs EXCEPT ![p.owner].pc = "validated",
                                          ![p.owner].valid = r.ret]
                        ELSE subs
             /\ last' = [reset |-> TRUE]
                        @@ [Event("schemaSettle", r.ret, p.snap, p.owner, << >>)
                               EXCEPT !.alone = p.alone]
    /\ passes' = RemoveAt(passes, k)
    /\ UNCHANGED <<opts, schemaType, asyncValidators, rendered, timers, ops>>

NextReset ==
    \/ \E f \in Fields, e \in Events : HandleChange(f, e)
    \/ \E k \in 1..Len(timers) : TimerFire(k)
    \/ \E f \in Fields : HandleBlur(f)
    \/ \E arg \in ValidateArgs : Validate(arg)
    \/ HandleSubmit
    \/ \E k \in 1..Len(passes) : SchemaSettle(k) /\ "reset" \notin DOMAIN passes[k]
    \/ \E k \in 1..Len(passes) : SettleAfterReset(k)
    \/ \E i \in 1..Len(subs) : SubmitContinue(i)
    \/ \E i \in 1..Len(subs) : OnSubmitSettle(i)
    \/ Render
    \/ \E arg \in ResetArgs : ResetInFlight(arg)
    \/ \E initialValues \in ReinitValues : ReinitInFlight(initialValues)

SpecReset == InitReinit /\ [][NextReset]_vars

\* ------------------------------------------------- the reducer on its own
\* formReducer is a pure function of (state, action).  SpecReducer applies it
\* to every state of a bounded set of FormState values and to every action
\* of a bounded set of FormAction values, whatever sequence dispatches them.
ErrorMaps == {EmptyMap, ("a" :> "required")}
TouchedMaps == {EmptyMap, ("a" :> FALSE)}
FormStates ==
    [values : Snapshots, errors : ErrorMaps, touched : TouchedMaps,
     isSubmitting : BOOLEAN, isValidating : BOOLEAN, isDirty : BOOLEAN,
     isValid : BOOLEAN, submitAttemptCount : 0..MaxCount]

PartialValues == {EmptyMap, ("b" :> ""), [f \in Fields |-> "x"]}

FormActions ==
    [type : {"SET_VALUE"}, field : Fields, payload : Val]
    \cup [type : {"SET_VALUES"}, payload : PartialValues]
    \cup [type : {"SET_ERROR"}, field : {"b"}, payload : {"", "taken"}]
    \cup [type : {"SET_ERRORS"}, payload : ErrorMaps \cup {("b" :> "taken")}]
    \cup [type : {"SET_TOUCHED"}, field : {"a"}, payload : BOOLEAN]
    \cup [type : {"SET_TOUCHED"}, field : {"a"}]
    \cup [type : {"SET_SUBMITTING", "SET_VALIDATING"}, payload : BOOLEAN]
    \cup [type : {"SUBMIT_ATTEMPT"}]
    \cup [type : {"RESET"}, payload : Snapshots]
    \cup [type : {"RESET"}]

\* dispatch(action)
Dispatch(action) ==
    /\ action.type = "SUBMIT_ATTEMPT" => st.submitAttemptCount < MaxCount
    /\ st' = formReducer(st, action)
    /\ last' = [op |-> "dispatch", action |-> action]
    /\ UNCHANGED <<opts, schemaType, asyncValidators, rendered, timers, passes, subs, ops>>

InitReducer ==
    /\ opts \in OptionsAsync
    /\ schemaType = detectSchemaType(opts.schema)
    /\ asyncValidators = << >>
    /\ st \in FormStates
    /\ rendered = st.values
    /\ timers = << >>
    /\ passes = << >>
    /\ subs = << >>
    /\ ops = 0
    /\ last = Quiet("init")

NextReducer == \E action \in FormActions : Dispatch(action)

SpecReducer == InitReducer /\ [][NextReducer]_vars

\* ================================================================= claims
\* The handleSubmit invocations whose onSubmit call has not settled.
Pending == {i \in 1..Len(subs) : subs[i].pc = "submitting"}

\* handleSubmit invocation i ends in this step
Ends(i) == subs[i].pc # "done" /\ subs'[i].pc = "done"

\* ... with its validation not having returned true
EndsInvalid(i) == subs[i].pc = "validated" /\ ~(subs[i].valid = "true") /\ Ends(i)

\* A step of handleSubmit invocation i: its call, a step of its validation
\* pass, or its continuation.
StepOf(i) ==
    \/ Len(subs) = i - 1 /\ Len(subs') = i
    \/ i <= Len(subs) /\ subs'[i] # subs[i]

\* C1 (as stated): a handleSubmit invocation whose validation does not return
\* true never calls onSubmit, adds exactly 1 to submitAttemptCount, never sets
\* isSubmitting, and isSubmitting is false when it ends.
C1_AsStated ==
    [][\A i \in 1..MaxSubmits :
          /\ (Len(subs) = i - 1 /\ Len(subs') = i)
                => st'.submitAttemptCount = st.submitAttemptCount + 1
          /\ (i <= Len(subs) /\ EndsInvalid(i))
                => /\ subs'[i].cb = "none"
                   /\ st'.submitAttemptCount = st.submitAttemptCount
                   /\ st'.isSubmitting = FALSE]_vars

\* C1 (amended): such an invocation never calls onSubmit, adds exactly 1 to
\* submitAttemptCount when it is called and nothing afterwards, and never
\* writes isSubmitting: it ends with isSubmitting as it found it, which is
\* false unless the onSubmit call of another invocation is still pending.
C1_InvalidSubmit ==
    [][\A i \in 1..MaxSubmits :
          /\ (Len(subs) = i - 1 /\ Len(subs') = i)
                => /\ st'.submitAttemptCount = st.submitAttemptCount + 1
                   /\ st'.isSubmitting = st.isSubmitting
          /\ (i <= Len(subs) /\ subs[i].pc = "validating" /\ StepOf(i))
                => /\ st'.submitAttemptCount = st.submitAttemptCount
                   /\ st'.isSubmitting = st.isSubmitting
          /\ (i <= Len(subs) /\ subs[i].pc = "validated" /\ ~(subs[i].valid = "true")
                /\ StepOf(i))
                => /\ subs'[i].pc = "done" /\ subs'[i].cb = "none"
                   /\ st' = st
                   /\ (st'.isSubmitting => Pending \ {i} # {})]_vars

\* An invocation has just ended without calling onSubmit, after an attempt
\* was counted.
C1_Witness ==
    \E i \in 1..Len(subs) :
        /\ last.op = "submitContinue" /\ last.owner = i
        /\ subs[i].pc = "done" /\ subs[i].cb = "none"
        /\ st.submitAttemptCount > 0 /\ ~st.isSubmitting

\* The state a Reset to the configured initialValues leaves.
PostReset ==
    [values |-> opts.initialValues,
     errors |-> EmptyMap,
     touched |-> EmptyMap,
     isSubmitting |-> FALSE,
     isValidating |-> FALSE,
     isDirty |-> FALSE,
     isValid |-> TRUE,
     submitAttemptCount |-> 0]

\* C2: with resetOnSubmit, when onSubmit has resolved and handleSubmit has
\* completed, the state is the post-Reset state for initialValues.
C2_ResetOnSubmit ==
    \A i \in 1..Len(subs) :
        (/\ opts.resetOnSubmit
         /\ last.op = "onSubmitSettle" /\ last.owner = i
         /\ subs[i].pc = "done" /\ subs[i].cb = "resolved")
        => st = PostReset

\* C3: when the timeout of a burst of handleChange calls fires, it is the only
\* one pending (one pass per burst) and the pass it starts validates a snapshot
\* holding the value the last call of the burst set.
C3_DebouncedSnapshot ==
    [][last'.op = "timerFire"
          => \E k \in 1..Len(timers) :
                /\ timers' = RemoveAt(timers, k)
                /\ Len(timers) = 1
                /\ last'.snap[timers[k].field] = timers[k].value]_vars

\* C4 (as stated): isSubmitting is false whenever no onSubmit call is
\* pending, and every handleSubmit invocation ends with isSubmitting = false.
C4_AsStated ==
    [][/\ (Pending = {} => ~st.isSubmitting)
       /\ \A i \in 1..Len(subs) : Ends(i) => ~st'.isSubmitting]_vars

\* C4 (amended): isSubmitting is false whenever no onSubmit call is pending;
\* every handleSubmit invocation ends, provided what it awaits settles; one
\* that called onSubmit ends with isSubmitting = false, one whose validation
\* failed leaves isSubmitting as it is (true only while another invocation's
\* onSubmit is pending); and isSubmitting always turns false again.
C4_SubmittingReleased ==
    /\ [](Pending = {} => ~st.isSubmitting)
    /\ [][\A i \in 1..Len(subs) :
             Ends(i) => IF subs'[i].cb = "none"
                        THEN st'.isSubmitting = st.isSubmitting
                        ELSE ~st'.isSubmitting]_vars
    /\ \A i \in 1..MaxSubmits : (Len(subs) >= i) ~> (Len(subs) >= i /\ subs[i].pc = "done")
    /\ st.isSubmitting ~> ~st.isSubmitting

\* An invocation whose callback rejected has ended, isSubmitting released.
C4_Witness ==
    \E i \in 1..Len(subs) :
        /\ last.op = "onSubmitSettle" /\ last.owner = i
        /\ subs[i].pc = "done" /\ subs[i].cb = "rejected"
        /\ ~st.isSubmitting

\* C5: when onSubmit throws or rejects, handleSubmit resolves, performs no
\* Reset (values, errors, touched and submitAttemptCount stay as they were,
\* also with resetOnSubmit) and leaves isSubmitting false.
C5_SubmitErrorCaught ==
    [][\A i \in 1..Len(subs) :
          (Ends(i) /\ subs'[i].cb \in {"rejected", "threw"})
          => /\ subs'[i].result = "resolved"
             /\ st'.values = st.values
             /\ st'.errors = st.errors
             /\ st'.touched = st.touched
             /\ st'.isDirty = st.isDirty
             /\ st'.submitAttemptCount = st.submitAttemptCount
             /\ ~st'.isSubmitting]_vars

\* With resetOnSubmit, an invocation has ended on a rejected callback and the
\* edited values and the attempt count are still there.
C5_Witness ==
    \E i \in 1..Len(subs) :
        /\ opts.resetOnSubmit
        /\ last.op = "onSubmitSettle" /\ last.owner = i
        /\ subs[i].cb = "rejected" /\ subs[i].result = "resolved"
        /\ st.isDirty /\ st.submitAttemptCount > 0 /\ ~st.isSubmitting

\* C6: for a schema of unrecognized kind the promise validate() returns fails
\* (it does not resolve to a boolean), and the pass leaves errors and isValid
\* as they were.
C6_UnsupportedSurfaces ==
    [][(schemaType = "unknown" /\ last'.ret # "none" /\ last'.op # "init")
          => /\ last'.ret = "rejected"
             /\ st'.errors = st.errors
             /\ st'.isValid = st.isValid]_vars

\* The fields the schema's failure names for a snapshot, and the message of
\* the last entry naming a field.
FailingFields(values) ==
    {Issues(values)[i][1] : i \in 1..Len(Issues(values))} \ {""}
LastMessage(values, f) ==
    LET is == Issues(values)
        k == CHOOSE n \in 1..Len(is) :
                /\ is[n][1] = f
                /\ \A j \in (n + 1)..Len(is) : is[j][1] # f
    IN is[k][2]

\* A pass has just returned after the schema rejected its snapshot.
SchemaRejected ==
    last.op = "schemaSettle" /\ last.ret # "none" /\ Issues(last.snap) # << >>

\* C7 (as stated): when a schema of a recognized kind rejects the snapshot,
\* validate() returns false and the state then has the message of every
\* failing field in errors, isValid = false and isValidating = false.
C7_AsStated ==
    SchemaRejected
    => /\ last.ret = "false"
       /\ \A f \in FailingFields(last.snap) :
             f \in DOMAIN st.errors /\ st.errors[f] = LastMessage(last.snap, f)
       /\ ~st.isValid
       /\ ~st.isValidating

\* C7 (amended): validate() returns false, errors is exactly the map from
\* the fields the failure names to the last message reported for each,
\* isValidating = false, and isValid = false exactly when the failure names
\* at least one field: a failure made up of path-less entries only leaves
\* errors = {} and isValid = true.
C7_SchemaRejects ==
    SchemaRejected
    => /\ last.ret = "false"
       /\ DOMAIN st.errors = FailingFields(last.snap)
       /\ \A f \in FailingFields(last.snap) : st.errors[f] = LastMessage(last.snap, f)
       /\ st.isValid = (FailingFields(last.snap) = {})
       /\ ~st.isValidating

\* A pass has returned false for a snapshot on which field a fails twice and
\* field b once.
C7_Witness ==
    /\ SchemaRejected
    /\ last.ret = "false"
    /\ FailingFields(last.snap) = {"a", "b"}
    /\ ~st.isValid

\* C8: when the schema accepts the snapshot and no async validator is
\* registered, validate() returns true and the state then has errors = {},
\* isValid = true and isValidating = false.
C8_SchemaAccepts ==
    (/\ last.op = "schemaSettle" /\ last.ret # "none"
     /\ Issues(last.snap) = << >>
     /\ Len(asyncValidators) = 0)
    => /\ last.ret = "true"
       /\ st.errors = EmptyMap
       /\ st.isValid
       /\ ~st.isValidating

\* A pass has returned true after the user edited the form.
C8_Witness ==
    /\ last.op = "schemaSettle" /\ last.ret = "true"
    /\ Len(asyncValidators) = 0
    /\ st.isDirty /\ st.errors = EmptyMap /\ st.isValid /\ ~st.isValidating

\* A pass has just returned after its last async validator settled (so the
\* schema had accepted its snapshot); last.outs[i] is what validator i settled
\* with.
AsyncDone == last.op = "asyncSettle" /\ last.ret # "none"
NoneRejected == \A i \in 1..Len(last.outs) : last.outs[i] # Rejects
FieldsOf(S) == {asyncValidators[i] : i \in S}
\* The last validator of S registered for field f.
LastOf(S, f) ==
    CHOOSE i \in S : asyncValidators[i] = f
                     /\ \A j \in S : asyncValidators[j] = f => j <= i

SomeRejected == AsyncDone /\ \E i \in 1..Len(last.outs) : last.outs[i] = Rejects

Dispatched(types) == last.op = "dispatch" /\ last.action.type \in types

\* C12: Reset applied to any state yields errors = {}, touched = {}, all
\* flags false except isValid = true, submitAttemptCount = 0, and values = v
\* when v is given, the prior values when it is omitted.
C12_Reset ==
    [][Dispatched({"RESET"})'
          => /\ st'.values = IF "payload" \in DOMAIN last'.action
                             THEN last'.action.payload ELSE st.values
             /\ st'.errors = EmptyMap /\ st'.touched = EmptyMap
             /\ ~st'.isSubmitting /\ ~st'.isValidating /\ ~st'.isDirty
             /\ st'.isValid
             /\ st'.submitAttemptCount = 0]_vars

\* Reset without a value has been applied to a state whose values are not
\* the initial ones: they are retained and everything else is cleared.
C12_Witness ==
    /\ Dispatched({"RESET"})
    /\ "payload" \notin DOMAIN last.action
    /\ st.values = [f \in Fields |-> ""]
    /\ st.submitAttemptCount = 0 /\ st.isValid /\ ~st.isDirty

\* C13: isDirty is false after construction, becomes true at a SetValue or
\* SetValues, is left as it is by every other transition, and only a Reset
\* makes it false again.
C13_Dirty ==
    /\ \A v \in Snapshots : ~InitialState(v).isDirty
    /\ [][Dispatched({"SET_VALUE", "SET_VALUES"})' => st'.isDirty]_vars
    /\ [][Dispatched({"RESET"})' => ~st'.isDirty]_vars
    /\ [][Dispatched({"SET_ERROR", "SET_ERRORS", "SET_TOUCHED", "SET_SUBMITTING",
                      "SET_VALIDATING", "SUBMIT_ATTEMPT"})'
             => st'.isDirty = st.isDirty]_vars

\* SetValues with an empty map has been applied: the form is dirty.
C13_Witness ==
    /\ Dispatched({"SET_VALUES"})
    /\ last.action.payload = EmptyMap
    /\ st.isDirty

\* C14: SetErrors(m) replaces the errors map by m and sets isValid to true
\* exactly when m has no keys.
C14_SetErrors ==
    [][Dispatched({"SET_ERRORS"})'
          => /\ st'.errors = last'.action.payload
             /\ st'.isValid = (DOMAIN last'.action.payload = {})]_vars

\* SetErrors of a map with one key has been applied: errors is that map and
\* isValid is false.
C14_Witness ==
    /\ Dispatched({"SET_ERRORS"})
    /\ last.action.payload = ("b" :> "taken")
    /\ st.errors = ("b" :> "taken")
    /\ ~st.isValid

\* C11: with no pass in flight isValidating is false; a pass sets
\* isValidating when it starts and clears it in the step in which it ends,
\* whichever way it ends.
C11_ValidatingReleased ==
    /\ [](passes = << >> => ~st.isValidating)
    /\ [][Len(passes') > Len(passes) => st'.isValidating]_vars
    /\ [][last'.ret # "none" => ~st'.isValidating]_vars

\* A pass has ended by an exception (validate() rejected) and isValidating
\* is false.
C11_Witness ==
    /\ last.op = "schemaThrows" /\ last.ret = "rejected"
    /\ passes = << >>
    /\ ~st.isValidating

\* The step applies a Reset: resetForm was called, or the onSubmit of a
\* handleSubmit with resetOnSubmit resolved.
ResetApplied ==
    \/ last'.op = "resetForm"
    \/ /\ opts.resetOnSubmit
       /\ last'.op = "onSubmitSettle"
       /\ subs'[last'.owner].cb = "resolved"

\* C15: submitAttemptCount is never negative, a handleSubmit call adds
\* exactly 1 to it in the step that starts its validation, whatever becomes
\* of the invocation, and every other step leaves it alone unless it applies
\* a Reset, which sets it to 0.
C15_AttemptCount ==
    /\ [](st.submitAttemptCount >= 0)
    /\ [][IF last'.op = "handleSubmit"
          THEN st'.submitAttemptCount = st.submitAttemptCount + 1
          ELSE IF ResetApplied
          THEN st'.submitAttemptCount = 0
          ELSE st'.submitAttemptCount = st.submitAttemptCount]_vars

\* Two handleSubmit invocations have been counted, the second ended after
\* its callback rejected.
C15_Witness ==
    /\ Len(subs) = 2
    /\ st.submitAttemptCount = 2
    /\ subs[2].pc = "done" /\ subs[2].cb = "rejected"

\* C19: a call of setValue, setValues, setError, setErrors or setTouched
\* starts no validation pass, schedules no debounced one, settles no
\* validate() promise and leaves isValidating unchanged, whatever
\* validateOnChange and validateOnBlur are.
C19_SettersDoNotValidate ==
    [][last'.op \in {"setValue", "setValues", "setError", "setErrors", "setTouched"}
          => /\ passes' = passes
             /\ timers' = timers
             /\ last'.ret = "none"
             /\ st'.isValidating = st.isValidating]_vars

\* setValue has been called with validateOnChange and validateOnBlur
\* enabled: the value is set, nothing is scheduled or in flight.
C19_Witness ==
    /\ last.op = "setValue"
    /\ opts.validateOnChange /\ opts.validateOnBlur
    /\ st.values["a"] = "" /\ st.isDirty
    /\ timers = << >> /\ passes = << >> /\ ~st.isValidating

\* C20: resetForm(v) resets the form with values = v, resetForm() with the
\* configured initialValues; errors and touched become empty, isDirty,
\* isSubmitting and isValidating false and submitAttemptCount 0.
C20_ResetForm ==
    [][last'.op = "resetForm"
          => /\ st'.values = IF last'.args = NoArg THEN opts.initialValues
                             ELSE last'.args[1]
             /\ st'.errors = EmptyMap /\ st'.touched = EmptyMap
             /\ ~st'.isDirty /\ ~st'.isSubmitting /\ ~st'.isValidating
             /\ st'.submitAttemptCount = 0]_vars

\* resetForm() has been called after the values were changed and rendered:
\* the store holds the initial values again.
C20_Witness ==
    /\ last.op = "resetForm" /\ last.args = NoArg
    /\ rendered # opts.initialValues
    /\ st.values = opts.initialValues
    /\ ~st.isDirty

\* C18: a handleBlur call marks its field touched and, exactly when
\* validateOnBlur is enabled, starts a validation pass within the call (not
\* through the debounce timer) and returns while the pass is still in
\* flight; with validateOnBlur disabled it starts and schedules nothing.
C18_Blur ==
    [][last'.op = "handleBlur"
          => /\ \E f \in Fields : st'.touched = (f :> TRUE) @@ st.touched
             /\ timers' = timers
             /\ IF opts.validateOnBlur
                THEN \/ /\ Len(passes') = Len(passes) + 1
                        /\ passes'[Len(passes')].pc = "schema"
                        /\ passes'[Len(passes')].snap = rendered
                        /\ st'.isValidating
                        /\ last'.ret = "none"
                     \/ /\ schemaType = "unknown"
                        /\ passes' = passes
                        /\ last'.ret = "false"
                ELSE /\ passes' = passes
                     /\ last'.ret = "none"
                     /\ st'.isValidating = st.isValidating]_vars

\* handleBlur has returned with validateOnBlur enabled: the field is
\* touched and the pass it started is awaiting the schema.
C18_Witness ==
    /\ last.op = "handleBlur"
    /\ opts.validateOnBlur
    /\ DOMAIN st.touched # {}
    /\ Len(passes) = 1 /\ passes[1].pc = "schema"
    /\ st.isValidating

\* The values a handleChange call can set: the raw value of a text control,
\* the checked flag of a checkbox.
ChangeValues ==
    {e.value : e \in Events} \cup {e.checked : e \in CheckboxEvents}

\* C17: a handleChange call sets its field to the raw input value, or to
\* the checked flag for a checkbox, and marks the form dirty; exactly when
\* validateOnChange is enabled it replaces the pending timeout of the
\* debounced validation by a new one; it starts no pass itself and returns
\* at once.  With validateOnChange disabled no timeout is ever pending.
C17_Change ==
    /\ [](~opts.validateOnChange => timers = << >>)
    /\ [][last'.op = "handleChange"
             => /\ \E f \in Fields, v \in ChangeValues :
                      /\ st'.values = [st.values EXCEPT ![f] = v]
                      /\ opts.validateOnChange
                            => /\ timers'[Len(timers')].field = f
                               /\ timers'[Len(timers')].value = v
                /\ st'.isDirty
                /\ IF opts.validateOnChange
                   THEN /\ Len(timers') >= 1
                        /\ \A k \in 1..Len(timers') : timers'[k].cur => k = Len(timers')
                   ELSE timers' = timers
                /\ passes' = passes
                /\ last'.ret = "none"
                /\ st'.isValidating = st.isValidating]_vars

\* A checkbox change has set the checked flag, not the value attribute, and
\* one debounced validation is pending.
C17_Witness ==
    /\ last.op = "handleChange"
    /\ opts.validateOnChange
    /\ st.values["b"] = JsTrue
    /\ Len(timers) = 1 /\ timers[1].value = JsTrue
    /\ passes = << >>

\* The second of two validate() calls in immediate succession has just
\* returned, no other pass having run beside it.
SecondReturned ==
    /\ last.op \in {"validateAgain", "settleAgain"}
    /\ last.ret # "none"
    /\ last.alone

\* C16: the second of two validate() calls in immediate succession on
\* unchanged values, no async validator registered, leaves the errors map
\* and the isValid the first one left and returns what the first returned.
C16_ValidateTwice ==
    SecondReturned
    => /\ st.errors = last.first.errors
       /\ st.isValid = last.first.isValid
       /\ last.ret = last.first.ret

\* Both calls returned false for a snapshot the schema rejects, with the
\* same non-empty errors map.
C16_Witness ==
    /\ SecondReturned
    /\ last.op = "settleAgain"
    /\ last.ret = "false" /\ last.first.ret = "false"
    /\ st.errors # EmptyMap /\ st.errors = last.first.errors

\* C24: SetSubmitting(flag) sets isSubmitting = flag and also isValid = flag,
\* whatever the errors map holds.
C24_SetSubmitting ==
    [][Dispatched({"SET_SUBMITTING"})'
          => /\ st'.isSubmitting = last'.action.payload
             /\ st'.isValid = last'.action.payload
             /\ st'.errors = st.errors]_vars

\* SetSubmitting(true) has been applied to a state with a non-empty errors
\* map: isValid is true all the same.
C24_Witness ==
    /\ Dispatched({"SET_SUBMITTING"})
    /\ last.action.payload
    /\ st.errors # EmptyMap
    /\ st.isSubmitting /\ st.isValid

\* C25: SetError(field, message) merges the entry into errors, keeping every
\* other field's error, and sets isValid = false, also for an empty message
\* and also when isValid was true; values and touched are unchanged.
C25_SetError ==
    [][Dispatched({"SET_ERROR"})'
          => /\ DOMAIN st'.errors = DOMAIN st.errors \cup {last'.action.field}
             /\ st'.errors[last'.action.field] = last'.action.payload
             /\ \A f \in DOMAIN st.errors \ {last'.action.field} :
                    st'.errors[f] = st.errors[f]
             /\ ~st'.isValid
             /\ st'.values = st.values /\ st'.touched = st.touched]_vars

\* SetError with an empty message has been applied to a state that held
\* another field's error: both entries are there and isValid is false.
C25_Witness ==
    /\ Dispatched({"SET_ERROR"})
    /\ last.action.payload = ""
    /\ st.errors = ("a" :> "required") @@ ("b" :> "")
    /\ ~st.isValid

\* The components of the state other than those named.
Frame(state, named) == [c \in DOMAIN state \ named |-> state[c]]

\* C26: SetValue(f, v) changes only values[f] and isDirty; SetValues(p) only
\* the keys of p in values and isDirty; SetTouched(f, flag) only touched[f],
\* flag defaulting to true; SetValidating only isValidating; SubmitAttempt
\* only submitAttemptCount.  None of them changes errors or isValid.
C26_Frames ==
    /\ [][Dispatched({"SET_VALUE"})'
             => /\ Frame(st', {"values", "isDirty"}) = Frame(st, {"values", "isDirty"})
                /\ \A f \in Fields \ {last'.action.field} :
                       st'.values[f] = st.values[f]]_vars
    /\ [][Dispatched({"SET_VALUES"})'
             => /\ Frame(st', {"values", "isDirty"}) = Frame(st, {"values", "isDirty"})
                /\ \A f \in Fields \ DOMAIN last'.action.payload :
                       st'.values[f] = st.values[f]]_vars
    /\ [][Dispatched({"SET_TOUCHED"})'
             => /\ Frame(st', {"touched"}) = Frame(st, {"touched"})
                /\ DOMAIN st'.touched = DOMAIN st.touched \cup {last'.action.field}
                /\ st'.touched[last'.action.field]
                     = IF "payload" \in DOMAIN last'.action
                       THEN last'.action.payload ELSE TRUE
                /\ \A f \in DOMAIN st.touched \ {last'.action.field} :
                       st'.touched[f] = st.touched[f]]_vars
    /\ [][Dispatched({"SET_VALIDATING"})'
             => Frame(st', {"isValidating"}) = Frame(st, {"isValidating"})]_vars
    /\ [][Dispatched({"SUBMIT_ATTEMPT"})'
             => Frame(st', {"submitAttemptCount"}) = Frame(st, {"submitAttemptCount"})]_vars

\* SetTouched without a flag has been applied to a clean, valid state that
\* holds an error: the field is touched and the rest is as it was.
C26_Witness ==
    /\ Dispatched({"SET_TOUCHED"})
    /\ "payload" \notin DOMAIN last.action
    /\ st.touched = ("a" :> TRUE)
    /\ st.errors # EmptyMap /\ st.isValid /\ ~st.isDirty

\* C23: at construction values = initialValues, errors = {}, touched = {},
\* the four flags are false and submitAttemptCount = 0; isValid stays false
\* until the first SetErrors with an empty map or the first Reset (and no
\* onSubmit call is awaited before that).
C23_Construction ==
    /\ last.op = "init"
       => st = [values |-> opts.initialValues, errors |-> EmptyMap,
                touched |-> EmptyMap, isSubmitting |-> FALSE,
                isValidating |-> FALSE, isDirty |-> FALSE, isValid |-> FALSE,
                submitAttemptCount |-> 0]
    /\ ~st.isValid
    /\ \A i \in 1..Len(subs) : subs[i].pc # "submitting"

\* handleSubmit has returned after a validation that failed, values were
\* changed and errors written, and isValid is still false.
C23_Witness ==
    /\ last.op = "submitContinue"
    /\ st.submitAttemptCount = 1
    /\ st.isDirty
    /\ st.errors # EmptyMap
    /\ ~st.isValid

\* The fields that appear as the first path segment of an entry, and the
\* message of the last entry of the sequence that names the field.
FirstSegments(entries) ==
    {entries[i].path[1] : i \in {j \in 1..Len(entries) : Len(entries[j].path) > 0}}
LastNaming(entries, f) ==
    LET k == CHOOSE n \in 1..Len(entries) :
                /\ Len(entries[n].path) > 0 /\ entries[n].path[1] = f
                /\ \A j \in (n + 1)..Len(entries) :
                      ~(Len(entries[j].path) > 0 /\ entries[j].path[1] = f)
    IN entries[k].message

\* A pass of a Zod schema has just ended with the failure last.error.
ZodRejected == last.op = "schemaRejects" /\ schemaType = "zod"

\* C27: for a Zod failure carrying an ordered sequence of {path, message}
\* entries the written errors map has, for each field that is the first
\* path segment of some entry, the message of the last such entry, and no
\* other keys.
C27_ZodFailure ==
    ZodRejected
    => /\ DOMAIN st.errors = FirstSegments(last.error.errors)
       /\ \A f \in DOMAIN st.errors :
             st.errors[f] = LastNaming(last.error.errors, f)

\* A failure of two entries for field a, the second with a nested path, has
\* been written: errors holds the second message under a.
C27_Witness ==
    /\ ZodRejected
    /\ last.error.errors = << [path |-> <<"a">>, message |-> "required"],
                              [path |-> <<"a", "street">>, message |-> "short"] >>
    /\ st.errors = ("a" :> "short")

\* A pass of a Yup schema has just ended with the failure last.error, which
\* is a single pair / an aggregate.
YupRejected == last.op = "schemaRejects" /\ schemaType = "yup"
YupSingleRejected == YupRejected /\ "inner" \notin DOMAIN last.error
YupAggregateRejected == YupRejected /\ "inner" \in DOMAIN last.error

\* What an aggregate with the given inner sequence is normalised to: the map
\* from every non-empty path to the last message reported for it.
AggregateMap(inner) ==
    LET named == {inner[i].path : i \in 1..Len(inner)} \ {""}
    IN [f \in named |->
           inner[CHOOSE n \in 1..Len(inner) :
                    /\ inner[n].path = f
                    /\ \A j \in (n + 1)..Len(inner) : inner[j].path # f].message]

\* C28 (as stated): a single pair {path: p, message: m} yields errors =
\* {p: m}, the same as an aggregate whose inner sequence is that one entry.
C28_AsStated ==
    /\ YupSingleRejected => st.errors = (last.error.path :> last.error.message)
    /\ (YupAggregateRejected /\ Len(last.error.inner) = 1)
       => st.errors = (last.error.inner[1].path :> last.error.inner[1].message)

\* C28 (amended): a single pair is normalised to the map an aggregate whose
\* inner sequence is that one entry is normalised to: {p: m} when the path p
\* is non-empty, the empty map when it is empty.
C28_YupShapes ==
    /\ YupAggregateRejected => st.errors = AggregateMap(last.error.inner)
    /\ YupSingleRejected
       => /\ st.errors = AggregateMap(<< last.error >>)
          /\ st.errors = IF last.error.path = "" THEN EmptyMap
                         ELSE (last.error.path :> last.error.message)

\* A single pair naming field b has been written over an earlier map.
C28_Witness ==
    /\ YupSingleRejected
    /\ last.error = [path |-> "b", message |-> "required"]
    /\ st.errors = ("b" :> "required")
    /\ ops > 1

\* C29: detectSchemaType returns zod exactly for objects that have both
\* safeParse and parseAsync, yup exactly for objects not detected as zod
\* that have the marker set and a validate method, unknown otherwise; a
\* schema detected as zod can be validated through parseAsync, so that no
\* validate() call on it fails on the call of the method.
C29_DetectKind ==
    LET s == opts.schema IN
    /\ schemaType = "zod" <=> (s.isObject /\ s.safeParse /\ s.parseAsync)
    /\ schemaType = "yup"
          <=> (schemaType # "zod" /\ s.isObject /\ s.isYupSchema /\ s.validate)
    /\ schemaType \in {"zod", "yup", "unknown"}
    /\ schemaType = "zod" => s.parseAsync /\ last.ret # "rejected"

\* A pass that ran while another was in flight has just finished.
OverlappedFinished == last.op = "schemaSettle" /\ last.ret # "none" /\ ~last.alone

\* C30: passes are not serialized.  When passes overlap, each one that
\* finishes writes the errors map and isValid of the snapshot it validated,
\* so that what is left after both is what the last to finish wrote, also
\* when it validated older values; and isValidating is false as soon as the
\* first of them finishes, the other still being in flight.
C30_Overlap ==
    OverlappedFinished
    => /\ DOMAIN st.errors = FailingFields(last.snap)
       /\ \A f \in DOMAIN st.errors : st.errors[f] = LastMessage(last.snap, f)
       /\ st.isValid = (FailingFields(last.snap) = {})
       /\ ~st.isValidating

\* Two passes overlapped and both have finished; the last to finish had
\* validated values older than the current ones, which the schema accepts:
\* the state holds the errors of the older values.
C30_Witness ==
    /\ OverlappedFinished
    /\ passes = << >>
    /\ last.snap # st.values
    /\ Issues(st.values) = << >>
    /\ st.errors # EmptyMap /\ ~st.isValid

\* C22: teardown cancels the pending timer of the debounced validation, so
\* that after teardown no timeout fires, no validation pass starts because
\* of it and no state is written because of it.
C22_TeardownCancels ==
    /\ [][last'.op = "unmount" => timers' = << >>]_vars
    /\ [][Unmounted => last'.op # "timerFire"]_vars
    /\ [][Unmounted /\ timers # << >> => Len(passes') <= Len(passes)]_vars

\* C21: with enableReinitialize every change of the initialValues identity
\* applies Reset(initialValues): values are then the new initialValues,
\* errors and touched are empty, isDirty = false, isValid = true and
\* submitAttemptCount = 0.  Without it a change of initialValues changes no
\* part of the state.
C21_Reinitialize ==
    [][last'.op = "reinitialize"
          => IF opts.enableReinitialize
             THEN /\ st'.values = opts'.initialValues
                  /\ st'.errors = EmptyMap /\ st'.touched = EmptyMap
                  /\ ~st'.isDirty /\ st'.isValid
                  /\ st'.submitAttemptCount = 0
             ELSE st' = st]_vars

\* After a submit attempt the host passed other initialValues a second
\* time: the values are the new ones and the count is back to 0.
C21_Witness ==
    /\ last.op = "reinitialize"
    /\ opts.enableReinitialize
    /\ opts.initialValues # InitialValues
    /\ ops = 3 /\ Len(subs) = 1
    /\ st.values = opts.initialValues
    /\ st.isValid /\ st.submitAttemptCount = 0

\* C31: within one handleSubmit invocation the writes come in this order:
\* SubmitAttempt; its validation pass from SetValidating(true) to
\* SetValidating(false); SetSubmitting(true); the onSubmit call; Reset, only
\* with resetOnSubmit and a callback that succeeded; SetSubmitting(false).
\* onSubmit is never invoked before the pass has returned true.
C31_SubmitOrder ==
    [][\A i \in 1..MaxSubmits :
          /\ (Len(subs) = i - 1 /\ Len(subs') = i)
                => /\ st'.submitAttemptCount = st.submitAttemptCount + 1
                   /\ st'.isSubmitting = st.isSubmitting
                   /\ subs'[i].cb = "none"
                   /\ subs'[i].pc = "validating" => st'.isValidating /\ (\E k \in 1..Len(passes') : passes'[k].owner = i)
                   /\ subs'[i].pc # "validating"
                         => subs'[i].pc = "validated" /\ ~st'.isValidating
          /\ (i <= Len(subs) /\ StepOf(i))
                => CASE subs[i].pc = "validating" ->
                          /\ subs'[i].pc = "validated" /\ subs'[i].cb = "none"
                          /\ ~st'.isValidating
                          /\ st'.isSubmitting = st.isSubmitting
                          /\ st'.submitAttemptCount = st.submitAttemptCount
                     [] subs[i].pc = "validated" ->
                          IF subs'[i].cb = "none"
                          THEN subs'[i].pc = "done" /\ st' = st /\ subs[i].valid # "true"
                          ELSE /\ subs[i].valid = "true" /\ (\A k \in 1..Len(passes) : passes[k].owner # i)
                               /\ subs'[i].pc = "submitting"
                                     => st' = [st EXCEPT !.isSubmitting = TRUE,
                                                         !.isValid = TRUE]
                               /\ subs'[i].pc # "submitting"
                                     => /\ subs'[i].pc = "done" /\ subs'[i].cb = "threw"
                                        /\ st' = [st EXCEPT !.isSubmitting = FALSE,
                                                            !.isValid = FALSE]
                     [] subs[i].pc = "submitting" ->
                          /\ subs'[i].pc = "done"
                          /\ st' = IF opts.resetOnSubmit /\ subs'[i].cb = "resolved"
                                   THEN [PostReset EXCEPT !.isValid = FALSE]
                                   ELSE [st EXCEPT !.isSubmitting = FALSE,
                                                   !.isValid = FALSE]
                     [] OTHER -> FALSE]_vars

\* An invocation went through all of it under resetOnSubmit: its callback
\* resolved, the Reset was applied and SetSubmitting(false) came last.
C31_Witness ==
    \E i \in 1..Len(subs) :
        /\ last.op = "onSubmitSettle" /\ last.owner = i
        /\ opts.resetOnSubmit
        /\ subs[i].pc = "done" /\ subs[i].cb = "resolved"
        /\ st = [PostReset EXCEPT !.isValid = FALSE]
        /\ rendered # opts.initialValues

\* C32: handleSubmit validates and submits one snapshot, the values of the
\* render its closure was created in: the pass it awaits validates that
\* snapshot, onSubmit is called only after the pass returned true for it and
\* is called with it, and values written to the store after the render,
\* before or during the submission, are in neither.
C32_SubmitSnapshot ==
    [][\A i \in 1..MaxSubmits :
          /\ (Len(subs) = i - 1 /\ Len(subs') = i)
                => /\ subs'[i].snap = rendered
                   /\ last'.owner = i /\ last'.snap = rendered
                   /\ \A k \in 1..Len(passes') :
                         passes'[k].owner = i => passes'[k].snap = rendered
          /\ (i <= Len(subs) /\ StepOf(i))
                => /\ subs'[i].snap = subs[i].snap
                   /\ last'.owner = i /\ last'.snap = subs[i].snap
                   /\ (subs[i].cb = "none" /\ subs'[i].cb # "none")
                         => /\ subs[i].valid = "true"
                            /\ Issues(subs[i].snap) = << >>]_vars

\* onSubmit has been called with the snapshot of the render while the store
\* holds other values, which the schema rejects.
C32_Witness ==
    \E i \in 1..Len(subs) :
        /\ last.op = "submitContinue" /\ last.owner = i
        /\ subs[i].pc = "submitting"
        /\ last.snap = subs[i].snap
        /\ st.values # subs[i].snap
        /\ Issues(st.values) # << >>

C34_ValidateNeverFails ==
    schemaType \in {"zod", "yup"}
    => /\ last.ret \in {"none", "true", "false"}
       /\ \A i \in 1..Len(subs) :
             subs[i].valid # "rejected" /\ subs[i].result # "rejected"

\* C35: in every reachable state isValid = true implies that the errors map
\* is empty, across overlapping passes, setError / setErrors calls made
\* while a validation or a submission is pending, and the SetSubmitting(true)
\* of handleSubmit.
C35_ValidMeansNoErrors ==
    st.isValid => st.errors = EmptyMap

C37_PassReplaces ==
    "before" \in DOMAIN last
    => /\ (last.op = "schemaSettle" /\ last.ret \in {"none", "true"})
          => st.errors = EmptyMap
       /\ (last.op = "schemaSettle" /\ last.ret = "false")
          => /\ DOMAIN st.errors = FailingFields(last.snap)
             /\ \A f \in DOMAIN st.errors : st.errors[f] = LastMessage(last.snap, f)
       /\ (last.op = "asyncSettle" /\ last.ret = "false")
          => LET recorded == {i \in 1..Len(last.outs) : last.outs[i] \notin {Null, ""}}
                 Message(i) == IF last.outs[i] = Rejects THEN GenericAsyncMessage
                               ELSE last.outs[i]
             IN /\ DOMAIN st.errors = FieldsOf(recorded)
                /\ \A f \in DOMAIN st.errors : st.errors[f] = Message(LastOf(recorded, f))

\* The schema rejected a snapshot in which only field a fails, on an errors
\* map in which setError had written an error for field b: errors then holds
\* the error of field a alone.
C37_Witness ==
    /\ "before" \in DOMAIN last
    /\ last.op = "schemaSettle" /\ last.ret = "false"
    /\ last.before = ("b" :> "taken")
    /\ FailingFields(last.snap) = {"a"}
    /\ DOMAIN st.errors = {"a"}

\* C38: handleSubmit has no re-entrancy guard.  Every invocation adds 1 to
\* submitAttemptCount, also while the onSubmit call of an earlier one is
\* pending; every invocation whose validation returned true calls onSubmit,
\* whatever the other invocations are at, and no other does; and when the
\* callback of one invocation settles isSubmitting turns false, the callback
\* of another still being pending.
C38_NoGuard ==
    /\ [][last'.op = "handleSubmit"
             => /\ Len(subs') = Len(subs) + 1
                /\ st'.submitAttemptCount = st.submitAttemptCount + 1]_vars
    /\ [][\A i \in 1..Len(subs) :
             (subs[i].pc = "validated" /\ subs'[i].pc # "validated")
             => (subs'[i].cb # "none") = (subs[i].valid = "true")]_vars
    /\ [][\A i \in Pending : Ends(i) => ~st'.isSubmitting]_vars

\* Two invocations called onSubmit; the callback of the first has just
\* settled, that of the second is pending: isSubmitting is false and
\* submitAttemptCount is 2.
C38_Witness ==
    /\ Len(subs) = 2
    /\ last.op = "onSubmitSettle" /\ last.owner = 1
    /\ subs[1].pc = "done" /\ subs[1].cb = "resolved"
    /\ subs[2].pc = "submitting" /\ subs[2].cb = "pending"
    /\ ~st.isSubmitting
    /\ st.submitAttemptCount = 2

\* C39: a Reset (resetForm or the reinitialization) leaves the passes in
\* flight as they are; when such a pass finishes it writes the errors of
\* the snapshot it took before the Reset, the isValid that goes with them
\* and isValidating = false onto the reset state.
C39_ResetKeepsPasses ==
    /\ [][last'.op \in {"resetForm", "reinitialize"}
             => /\ Len(passes') = Len(passes)
                /\ \A k \in 1..Len(passes) :
                      /\ passes'[k].snap = passes[k].snap
                      /\ passes'[k].pc = passes[k].pc
                      /\ passes'[k].owner = passes[k].owner]_vars
    /\ [](("reset" \in DOMAIN last /\ last.ret # "none")
            => /\ DOMAIN st.errors = FailingFields(last.snap)
               /\ \A f \in DOMAIN st.errors : st.errors[f] = LastMessage(last.snap, f)
               /\ st.isValid = (FailingFields(last.snap) = {})
               /\ ~st.isValidating)

\* A pass that was in flight at a Reset has finished, no other pass having
\* been in flight with it: the values are the ones the Reset left, which the
\* schema accepts, and errors holds the errors of the values before the
\* Reset, with isValid false.
C39_Witness ==
    /\ "reset" \in DOMAIN last
    /\ last.alone
    /\ last.ret = "false"
    /\ st.values = opts.initialValues /\ ~st.isDirty /\ st.touched = EmptyMap
    /\ Issues(st.values) = << >>
    /\ st.errors # EmptyMap /\ ~st.isValid /\ ~st.isValidating

\* C40: when a schema failure is normalized, the entries whose key (the
\* first path segment of a Zod entry, the path of a Yup entry) is missing
\* or falsy (an empty path or a first segment 0 for Zod, an empty or missing
\* path for Yup) are dropped and the others kept; validate() returns false,
\* and isValid is true after the pass exactly when every entry was dropped,
\* errors then being the empty map.
C40_KeylessDropped ==
    last.op = "schemaRejects"
    => LET keys ==
               IF schemaType = "zod"
               THEN {IF Len(last.error.errors[i].path) = 0 THEN Undefined
                     ELSE last.error.errors[i].path[1] : i \in 1..Len(last.error.errors)}
               ELSE IF "inner" \in DOMAIN last.error
               THEN {last.error.inner[i].path : i \in 1..Len(last.error.inner)}
               ELSE {last.error.path}
       IN /\ last.ret = "false"
          /\ DOMAIN st.errors = keys \ {"", Zero, Undefined}
          /\ st.isValid = (keys \subseteq {"", Zero, Undefined})
          /\ st.isValid => st.errors = EmptyMap

\* A Zod failure of two entries, one with an empty path and one whose path
\* starts with the index 0, has been written: validate() returned false,
\* errors is empty and isValid is true.
C40_Witness ==
    /\ last.op = "schemaRejects" /\ schemaType = "zod"
    /\ last.error.errors = << [path |-> << >>, message |-> "required"],
                              [path |-> <<Zero, "a">>, message |-> "required"] >>
    /\ last.ret = "false"
    /\ st.errors = EmptyMap
    /\ st.isValid

====
